---------------------------- MODULE Spec2Model ----------------------------
(***************************************************************************)
(* A model of the Markdown validator of src/agent/tools/markdown_validator *)
(* .py: one run of validate_markdown_file (construct a MarkdownValidator,  *)
(* load the file, run the seven checkers line by line over self.lines,     *)
(* sort self.issues, build the result dictionary), followed by a second    *)
(* run on the same file, file system and probe answers.  The call of a     *)
(* second request of src/web_app.py, with a temporary file of its own, can *)
(* be interleaved with it step by step.                                    *)
(*                                                                         *)
(* Text is modelled by TLA+ strings (sequences of characters): Len, SubSeq *)
(* and \o work on them as on any sequence.  The one character the TLA+     *)
(* lexer cannot read inside a string, U+0060 GRAVE ACCENT (the Markdown    *)
(* "backtick"), is written as the circumflex "^" throughout; the           *)
(* circumflex itself never occurs in a modelled document.                  *)
(***************************************************************************)
EXTENDS Integers, Sequences, FiniteSets, TLC

VARIABLES
    file,                   \* the file on disk: "ok", "missing", "denied", "encoding"
    content,                \* the text of the file on disk
    exists,                 \* the paths for which os.path.exists answers True
    probe,                  \* what requests.head answers, per URL
    parked,                 \* the call of another request that is not running now
    endpoint,               \* src/web_app.py: the route of the request, or "none"
    body,                   \* what the request carries
    handler,                \* position inside the handler of the route
    temp_created,           \* NamedTemporaryFile has created the temporary file
    status,                 \* status code of the response, 0 before the answer
    reused,                 \* validate_all was called again on the same instance
    pc,                     \* position inside validate_markdown_file
    run,                    \* 1 = first call of validate_markdown_file, 2 = second
    i,                      \* enumerate(self.lines, 1): the line processed next
    lines,                  \* self.lines
    issues,                 \* self.issues
    prev_level,             \* validate_headers
    reference_definitions,  \* validate_links
    in_fenced_block,        \* validate_code_blocks
    block_start_line,
    fence_char,
    fence_count,
    prev_indent,            \* validate_lists
    prev_was_list,
    in_table,               \* validate_tables
    table_start,
    header_cols,
    unsorted,               \* self.issues as it was when the sort was called
    result,                 \* the dictionary validate_markdown_file returns
    first_result            \* the dictionary the first call returned

web == <<endpoint, body, handler, temp_created, status>>
env == <<file, content, exists, probe, parked, web, reused>>
locals == <<prev_level, reference_definitions, in_fenced_block, block_start_line,
            fence_char, fence_count, prev_indent, prev_was_list, in_table,
            table_start, header_cols>>
vars == <<file, content, exists, probe, parked, web, reused, pc, run, i, lines, issues, prev_level,
          reference_definitions, in_fenced_block, block_start_line, fence_char,
          fence_count, prev_indent, prev_was_list, in_table, table_start,
          header_cols, unsorted, result, first_result>>

----------------------------------------------------------------------------
(* Bounds of the model.                                                    *)

MaxLines == 3

----------------------------------------------------------------------------
(* Strings: the str methods and the character classes of re the code uses. *)

BT == "^"
None == "None"

\* s[k-1:k]: the character at position k, the empty string outside the string
At(s, k) == IF 1 <= k /\ k <= Len(s) THEN SubSeq(s, k, k) ELSE ""

Min(S) == CHOOSE x \in S : \A y \in S : x <= y
Max(S) == CHOOSE x \in S : \A y \in S : x >= y

\* str.find(c, from) for a single character, 1-based; 0 when absent
Find(s, c, from) ==
    LET P == {k \in from..Len(s) : At(s, k) = c}
    IN  IF P = {} THEN 0 ELSE Min(P)

StartsWith(s, p) == Len(s) >= Len(p) /\ SubSeq(s, 1, Len(p)) = p
EndsWith(s, p) == Len(s) >= Len(p) /\ SubSeq(s, Len(s) - Len(p) + 1, Len(s)) = p

\* the substring test  p in s
Contains(s, p) == \E k \in 1..(Len(s) - Len(p) + 1) : SubSeq(s, k, k + Len(p) - 1) = p

LowerLetters == "abcdefghijklmnopqrstuvwxyz"
UpperLetters == "ABCDEFGHIJKLMNOPQRSTUVWXYZ"
Digits == "0123456789"

IsSpace(c) == c \in {" ", "\t"}
IsDigit(c) == \E k \in 1..Len(Digits) : At(Digits, k) = c
IsLower(c) == \E k \in 1..Len(LowerLetters) : At(LowerLetters, k) = c
IsUpper(c) == \E k \in 1..Len(UpperLetters) : At(UpperLetters, k) = c
\* \w
IsWord(c) == IsLower(c) \/ IsUpper(c) \/ IsDigit(c) \/ c = "_"

LowerChar(c) ==
    IF IsUpper(c)
    THEN At(LowerLetters, CHOOSE k \in 1..Len(UpperLetters) : At(UpperLetters, k) = c)
    ELSE c

RECURSIVE Lower(_)
Lower(s) == IF s = "" THEN "" ELSE LowerChar(Head(s)) \o Lower(Tail(s))

\* str.lstrip(), str.rstrip(), str.strip()
LStrip(s) ==
    LET P == {k \in 1..Len(s) : ~IsSpace(At(s, k))}
    IN  IF P = {} THEN "" ELSE SubSeq(s, Min(P), Len(s))
RStrip(s) ==
    LET P == {k \in 1..Len(s) : ~IsSpace(At(s, k))}
    IN  IF P = {} THEN "" ELSE SubSeq(s, 1, Max(P))
Strip(s) == LStrip(RStrip(s))

\* str.rstrip('#')
RStripHashes(s) ==
    LET P == {k \in 1..Len(s) : At(s, k) # "#"}
    IN  IF P = {} THEN "" ELSE SubSeq(s, 1, Max(P))

\* c * n
RECURSIVE Repeat(_, _)
Repeat(c, n) == IF n <= 0 THEN "" ELSE c \o Repeat(c, n - 1)

\* str.split(sep) for a single-character separator
RECURSIVE Split(_, _)
Split(s, sep) ==
    LET p == Find(s, sep, 1)
    IN  IF p = 0 THEN <<s>>
        ELSE <<SubSeq(s, 1, p - 1)>> \o Split(SubSeq(s, p + 1, Len(s)), sep)

\* str.count(sub): the number of non-overlapping occurrences, left to right
RECURSIVE CountFrom(_, _, _)
CountFrom(s, sub, from) ==
    IF from + Len(sub) - 1 > Len(s) THEN 0
    ELSE IF SubSeq(s, from, from + Len(sub) - 1) = sub
         THEN 1 + CountFrom(s, sub, from + Len(sub))
         ELSE CountFrom(s, sub, from + 1)
Count(s, sub) == CountFrom(s, sub, 1)

\* the length of the run of character c that starts at position k
RunLength(s, c, k) ==
    LET P == {j \in k..Len(s) : At(s, j) # c}
    IN  IF P = {} THEN Len(s) - k + 1 ELSE Min(P) - k

\* the concatenation of a sequence of sequences
RECURSIVE Flatten(_)
Flatten(ss) == IF ss = <<>> THEN <<>> ELSE Head(ss) \o Flatten(Tail(ss))

RECURSIVE Join(_)
Join(ls) == IF Len(ls) = 1 THEN ls[1] ELSE ls[1] \o "\n" \o Join(Tail(ls))

----------------------------------------------------------------------------
(* ValidationIssue and the paths of the run.                               *)

\* mutant: the lines numbered from 0, as enumerate numbers them by default
ValidationIssueZeroBased(ln, ty, sev, descr, orig, fix) ==
    [line_number |-> ln - 1, issue_type |-> ty, severity |-> sev, description |-> descr,
     original_text |-> orig, suggested_fix |-> fix]

ValidationIssue(ln, ty, sev, descr, orig, fix) ==
    [line_number |-> ln, issue_type |-> ty, severity |-> sev, description |-> descr,
     original_text |-> orig, suggested_fix |-> fix]

file_path == "/docs/a.md"
\* os.path.dirname(os.path.abspath(file_path))
base_dir == "/docs"
\* os.path.join(a, b) on POSIX
PathJoin(a, b) ==
    IF StartsWith(b, "/") THEN b
    ELSE IF a = "" \/ EndsWith(a, "/") THEN a \o b
    ELSE a \o "/" \o b
PathExists(p) == p \in exists


----------------------------------------------------------------------------
(* validate_headers: one line.                                             *)

\* header_pattern = ^(#{1,6})\s*(.*)$ : the line starts with a hash.  The run
\* is greedy and capped at 6, so group 1 is the first min(run, 6) hashes and
\* group 2 is what follows them, leading white space skipped.
\* the pattern with the quantifier {0,6}: every line matches
HeaderMatchesAnyLine(line) == TRUE
HeaderMatches(line) == StartsWith(line, "#")
HeaderHashes(line) ==
    LET r == RunLength(line, "#", 1)
    IN  SubSeq(line, 1, IF r > 6 THEN 6 ELSE r)
HeaderGroup2(line) == LStrip(SubSeq(line, Len(HeaderHashes(line)) + 1, Len(line)))

header_format(n, line, hashes, text) ==
    IF At(line, Len(hashes) + 1) # " " /\ text # ""
    THEN <<ValidationIssue(n, "header_format", "warning",
                           "Missing space after header hashes", line,
                           hashes \o " " \o text)>>
    ELSE <<>>

empty_header(n, line, text) ==
    IF text = ""
    THEN <<ValidationIssue(n, "empty_header", "warning", "Empty header text", line,
                           "Add descriptive header text")>>
    ELSE <<>>

\* the test without the "+ 1": every deeper heading is reported
header_hierarchy_any_deeper(n, line, level, text) ==
    IF prev_level > 0 /\ level > prev_level
    THEN <<ValidationIssue(n, "header_hierarchy", "info",
               "Header level skipped from H" \o ToString(prev_level) \o " to H"
                   \o ToString(level),
               line, Repeat("#", prev_level + 1) \o " " \o text)>>
    ELSE <<>>

header_hierarchy(n, line, level, text) ==
    IF prev_level > 0 /\ level > prev_level + 1
    THEN <<ValidationIssue(n, "header_hierarchy", "info",
               "Header level skipped from H" \o ToString(prev_level) \o " to H"
                   \o ToString(level),
               line, Repeat("#", prev_level + 1) \o " " \o text)>>
    ELSE <<>>

\* the test applied to the line instead of the header text
trailing_hashes_of_line(n, line, hashes, text) ==
    IF EndsWith(RStrip(line), "#")
    THEN <<ValidationIssue(n, "trailing_hashes", "info",
                           "Trailing hashes in header (not recommended)", line,
                           hashes \o " " \o RStrip(RStripHashes(text)))>>
    ELSE <<>>

trailing_hashes(n, line, hashes, text) ==
    IF EndsWith(text, "#")
    THEN <<ValidationIssue(n, "trailing_hashes", "info",
                           "Trailing hashes in header (not recommended)", line,
                           hashes \o " " \o RStrip(RStripHashes(text)))>>
    ELSE <<>>

\* the issues the loop body of validate_headers appends for line n
HeaderIssues(n, line) ==
    IF ~HeaderMatches(line) THEN <<>>
    ELSE LET hashes == HeaderHashes(line)
             text == Strip(HeaderGroup2(line))
             level == Len(hashes)
         IN  header_format(n, line, hashes, text) \o empty_header(n, line, text)
                 \o header_hierarchy(n, line, level, text)
                 \o trailing_hashes(n, line, hashes, text)

----------------------------------------------------------------------------
(* _validate_url                                                           *)

\* urlparse(url).scheme and .netloc for a URL that starts with one of the four
\* prefixes of line 226: the scheme is what precedes the first colon; the
\* netloc is what follows "//" up to the first of / ? #
UrlScheme(url) == Lower(SubSeq(url, 1, Find(url, ":", 1) - 1))
UrlNetloc(url) ==
    LET c == Find(url, ":", 1)
        rest == SubSeq(url, c + 1, Len(url))
        P == {k \in 3..Len(rest) : At(rest, k) \in {"/", "?", "#"}}
    IN  IF ~StartsWith(rest, "//") THEN ""
        ELSE SubSeq(rest, 3, IF P = {} THEN Len(rest) ELSE Min(P) - 1)
\* urlparse raises ValueError ("Invalid IPv6 URL") on unbalanced brackets
UrlParseRaises(url) ==
    LET n == UrlNetloc(url)
    IN  (Find(n, "[", 1) > 0) # (Find(n, "]", 1) > 0)

\* mutant: only the URLs of the web taken for external
IsExternalWebOnly(url) ==
    \/ StartsWith(url, "http://")
    \/ StartsWith(url, "https://")

IsExternal(url) ==
    \/ StartsWith(url, "http://")
    \/ StartsWith(url, "https://")
    \/ StartsWith(url, "mailto:")
    \/ StartsWith(url, "tel:")

\* requests.head(url, timeout=5, allow_redirects=True): a response with a
\* status code, requests.exceptions.Timeout, another RequestException, or
\* any other exception
ProbeOutcomes ==
    {[kind |-> "response", status |-> 200], [kind |-> "response", status |-> 404],
     [kind |-> "timeout", status |-> 0], [kind |-> "request_error", status |-> 0],
     [kind |-> "exception", status |-> 0]}
Head_request(url) ==
    IF url \in DOMAIN probe THEN probe[url] ELSE [kind |-> "response", status |-> 200]

\* the status test with the limit itself left out
probe_issue_above_400(line_num, url, original) ==
    LET r == Head_request(url)
    IN  IF r.kind = "response" /\ r.status > 400
        THEN <<ValidationIssue(line_num, "broken_external_link", "error",
                   "Broken link (HTTP " \o ToString(r.status) \o "): " \o url,
                   original, "Update URL or remove the link")>>
        ELSE IF r.kind = "timeout"
        THEN <<ValidationIssue(line_num, "link_timeout", "warning",
                   "Link timed out: " \o url, original, "Verify URL is accessible")>>
        ELSE <<>>

probe_issue(line_num, url, original) ==
    LET r == Head_request(url)
    IN  IF r.kind = "response" /\ r.status >= 400
        THEN <<ValidationIssue(line_num, "broken_external_link", "error",
                   "Broken link (HTTP " \o ToString(r.status) \o "): " \o url,
                   original, "Update URL or remove the link")>>
        ELSE IF r.kind = "timeout"
        THEN <<ValidationIssue(line_num, "link_timeout", "warning",
                   "Link timed out: " \o url, original, "Verify URL is accessible")>>
        ELSE <<>>

\* the probe sent even when the URL has no scheme or no host
validate_url_probing_anyway(line_num, url, original) ==
    IF StartsWith(url, "#") THEN <<>>
    ELSE IF ~IsExternal(url)
    THEN LET full_path == PathJoin(base_dir, Head(Split(url, "#")))
         IN  IF ~PathExists(full_path)
             THEN <<ValidationIssue(line_num, "broken_local_link", "error",
                        "Local file not found: " \o url, original,
                        "Verify file exists at: " \o full_path)>>
             ELSE <<>>
    ELSE IF UrlParseRaises(url) THEN <<>>
    ELSE (IF UrlScheme(url) = "" \/ UrlNetloc(url) = ""
          THEN <<ValidationIssue(line_num, "invalid_url_format", "error",
                     "Invalid URL format: " \o url, original,
                     "Use full URL with scheme: https://" \o url)>>
          ELSE <<>>)
         \o probe_issue(line_num, url, original)

\* the path looked up with the fragment of the URL left in
validate_url_with_fragment(line_num, url, original) ==
    IF StartsWith(url, "#") THEN <<>>
    ELSE IF ~IsExternal(url)
    THEN LET full_path == PathJoin(base_dir, url)
         IN  IF ~PathExists(full_path)
             THEN <<ValidationIssue(line_num, "broken_local_link", "error",
                        "Local file not found: " \o url, original,
                        "Verify file exists at: " \o full_path)>>
             ELSE <<>>
    ELSE IF UrlParseRaises(url) THEN <<>>
    ELSE IF UrlScheme(url) = "" \/ UrlNetloc(url) = ""
    THEN <<ValidationIssue(line_num, "invalid_url_format", "error",
               "Invalid URL format: " \o url, original,
               "Use full URL with scheme: https://" \o url)>>
    ELSE probe_issue(line_num, url, original)

validate_url(line_num, url, original) ==
    IF StartsWith(url, "#") THEN <<>>
    ELSE IF ~IsExternal(url)
    THEN LET full_path == PathJoin(base_dir, Head(Split(url, "#")))
         IN  IF ~PathExists(full_path)
             THEN <<ValidationIssue(line_num, "broken_local_link", "error",
                        "Local file not found: " \o url, original,
                        "Verify file exists at: " \o full_path)>>
             ELSE <<>>
    ELSE IF UrlParseRaises(url) THEN <<>>
    ELSE IF UrlScheme(url) = "" \/ UrlNetloc(url) = ""
    THEN <<ValidationIssue(line_num, "invalid_url_format", "error",
               "Invalid URL format: " \o url, original,
               "Use full URL with scheme: https://" \o url)>>
    ELSE probe_issue(line_num, url, original)

----------------------------------------------------------------------------
(* validate_links: the three patterns and the loop bodies of the passes.   *)

\* link_pattern = \[([^\]]*)\]\(([^)]*)\) tried at position s: the bracket,
\* everything up to the next "]", then "(" and everything up to the next ")".
\* The result is <<>> (no match) or <<[text, url, whole, last]>>.
LinkAt(line, s) ==
    LET c1 == Find(line, "]", s + 1)
        c2 == Find(line, ")", c1 + 2)
    IN  IF At(line, s) = "[" /\ c1 > 0 /\ At(line, c1 + 1) = "(" /\ c2 > 0
        THEN <<[text |-> SubSeq(line, s + 1, c1 - 1), url |-> SubSeq(line, c1 + 2, c2 - 1),
                whole |-> SubSeq(line, s, c2), last |-> c2]>>
        ELSE <<>>

\* ref_link_pattern = \[([^\]]+)\]\[([^\]]*)\] tried at position s
RefLinkAt(line, s) ==
    LET c1 == Find(line, "]", s + 1)
        c2 == Find(line, "]", c1 + 2)
    IN  IF At(line, s) = "[" /\ c1 > s + 1 /\ At(line, c1 + 1) = "[" /\ c2 > 0
        THEN <<[text |-> SubSeq(line, s + 1, c1 - 1), ref |-> SubSeq(line, c1 + 2, c2 - 1),
                whole |-> SubSeq(line, s, c2), last |-> c2]>>
        ELSE <<>>

\* image_pattern = !\[([^\]]*)\]\(([^)]*)\) tried at position s
ImageAt(line, s) ==
    LET m == LinkAt(line, s + 1)
    IN  IF At(line, s) = "!" /\ m # <<>>
        THEN <<[text |-> m[1].text, url |-> m[1].url, whole |-> "!" \o m[1].whole,
                last |-> m[1].last]>>
        ELSE <<>>

\* mutant: the link pattern with (?<!!) in front, which leaves the images
\* to the image checker
RECURSIVE LinkMatchesSkippingImages(_, _)
LinkMatchesSkippingImages(line, s) ==
    IF s > Len(line) THEN <<>>
    ELSE LET m == LinkAt(line, s)
         IN  IF m = <<>> \/ At(line, s - 1) = "!"
             THEN LinkMatchesSkippingImages(line, s + 1)
             ELSE m \o LinkMatchesSkippingImages(line, m[1].last + 1)

\* pattern.finditer(line): the non-overlapping matches, left to right
RECURSIVE LinkMatches(_, _)
LinkMatches(line, s) ==
    IF s > Len(line) THEN <<>>
    ELSE LET m == LinkAt(line, s)
         IN  IF m = <<>> THEN LinkMatches(line, s + 1)
             ELSE m \o LinkMatches(line, m[1].last + 1)
RECURSIVE RefLinkMatches(_, _)
RefLinkMatches(line, s) ==
    IF s > Len(line) THEN <<>>
    ELSE LET m == RefLinkAt(line, s)
         IN  IF m = <<>> THEN RefLinkMatches(line, s + 1)
             ELSE m \o RefLinkMatches(line, m[1].last + 1)
RECURSIVE ImageMatches(_, _)
ImageMatches(line, s) ==
    IF s > Len(line) THEN <<>>
    ELSE LET m == ImageAt(line, s)
         IN  IF m = <<>> THEN ImageMatches(line, s + 1)
             ELSE m \o ImageMatches(line, m[1].last + 1)

\* ref_def_pattern = ^\[([^\]]+)\]:\s*(.+)$ : anchored at the start of the
\* line, so finditer yields at most one match.  \s* gives back white space
\* until .+ has one character.  <<>> or <<[ref, target]>>.
RefDefMatch(line) ==
    LET c1 == Find(line, "]", 2)
        rest == SubSeq(line, c1 + 2, Len(line))
        t == LStrip(rest)
    IN  IF At(line, 1) = "[" /\ c1 > 2 /\ At(line, c1 + 1) = ":" /\ rest # ""
        THEN <<[ref |-> SubSeq(line, 2, c1 - 1),
                target |-> IF t = "" THEN At(rest, Len(rest)) ELSE t]>>
        ELSE <<>>

\* mutant: the identifier is stored as written
CollectDefinitionAsWritten(defs, n, line) ==
    LET m == RefDefMatch(line)
    IN  IF m = <<>> THEN defs
        ELSE LET ref_id == m[1].ref
             IN  [r \in DOMAIN defs \cup {ref_id} |->
                      IF r = ref_id THEN <<n, m[1].target>> ELSE defs[r]]
\* mutant: the first definition of an identifier is kept
CollectDefinitionFirstWins(defs, n, line) ==
    LET m == RefDefMatch(line)
    IN  IF m = <<>> THEN defs
        ELSE LET ref_id == Lower(m[1].ref)
             IN  [r \in DOMAIN defs \cup {ref_id} |->
                      IF r \in DOMAIN defs THEN defs[r] ELSE <<n, m[1].target>>]
\* first pass, one line: reference_definitions[ref_id] = (i, match.group(2))
CollectDefinition(defs, n, line) ==
    LET m == RefDefMatch(line)
    IN  IF m = <<>> THEN defs
        ELSE LET ref_id == Lower(m[1].ref)
             IN  [r \in DOMAIN defs \cup {ref_id} |->
                      IF r = ref_id THEN <<n, m[1].target>> ELSE defs[r]]

\* second pass: the issues of one inline link
InlineLinkIssues(n, m) ==
    LET link_text == m.text
        url == Strip(m.url)
    IN  (IF link_text = ""
         THEN <<ValidationIssue(n, "empty_link_text", "warning", "Empty link text",
                                m.whole, "[descriptive text](" \o url \o ")")>>
         ELSE <<>>)
        \o (IF url = ""
            THEN <<ValidationIssue(n, "empty_url", "error", "Empty URL in link", m.whole,
                                   "[" \o link_text \o "](https://example.com)")>>
            ELSE validate_url(n, url, m.whole))

\* the identifier a reference link uses
RefId(m) == IF m.ref # "" THEN Lower(m.ref) ELSE Lower(m.text)

\* second pass: the issues of one reference link
RefLinkIssues(n, m) ==
    LET ref_id == RefId(m)
    IN  IF ref_id \notin DOMAIN reference_definitions
        THEN <<ValidationIssue(n, "undefined_reference", "error",
                   "Undefined link reference: [" \o ref_id \o "]", m.whole,
                   "Add reference definition: [" \o ref_id \o "]: https://example.com")>>
        ELSE <<>>

\* second pass, one line: the inline links, then the reference links
LinkIssues(n, line) ==
    LET ms == LinkMatches(line, 1)
        rs == RefLinkMatches(line, 1)
    IN  Flatten([k \in 1..Len(ms) |-> InlineLinkIssues(n, ms[k])])
            \o Flatten([k \in 1..Len(rs) |-> RefLinkIssues(n, rs[k])])

----------------------------------------------------------------------------
(* validate_code_blocks                                                    *)

\* re.match(r'^(^{3,}|~{3,})(\w*)$', line.strip()), with ^ inside the group
\* the backtick: a run of three or more of one fence character, then only
\* word characters to the end
FenceRun(line) ==
    LET t == Strip(line)
        c == At(t, 1)
    IN  IF c \in {BT, "~"} THEN RunLength(t, c, 1) ELSE 0
FenceMatch(line) ==
    LET t == Strip(line)
        n == FenceRun(line)
    IN  n >= 3 /\ \A k \in (n + 1)..Len(t) : IsWord(At(t, k))
current_char(line) == At(Strip(line), 1)
current_count(line) == FenceRun(line)

\* the fence state after the fence test of lines 292-303, as
\* [in_fenced_block, block_start_line, fence_char, fence_count]
\* mutants: a fence of either character closes the block; the count of the
\* closing fence must exceed the count of the opening fence
FenceStepAnyChar(n, line) ==
    LET old == [in_fenced_block |-> in_fenced_block, block_start_line |-> block_start_line,
                fence_char |-> fence_char, fence_count |-> fence_count]
    IN  IF ~FenceMatch(line) THEN old
        ELSE IF ~in_fenced_block
        THEN [in_fenced_block |-> TRUE, block_start_line |-> n,
              fence_char |-> current_char(line), fence_count |-> current_count(line)]
        ELSE IF current_count(line) >= fence_count
        THEN [old EXCEPT !.in_fenced_block = FALSE, !.fence_char = None]
        ELSE old
FenceStepGreater(n, line) ==
    LET old == [in_fenced_block |-> in_fenced_block, block_start_line |-> block_start_line,
                fence_char |-> fence_char, fence_count |-> fence_count]
    IN  IF ~FenceMatch(line) THEN old
        ELSE IF ~in_fenced_block
        THEN [in_fenced_block |-> TRUE, block_start_line |-> n,
              fence_char |-> current_char(line), fence_count |-> current_count(line)]
        ELSE IF current_char(line) = fence_char /\ current_count(line) > fence_count
        THEN [old EXCEPT !.in_fenced_block = FALSE, !.fence_char = None]
        ELSE old
\* mutants: a fence that does not close the block opens one inside it; the
\* closing fence leaves the fence character as it was
FenceStepNested(n, line) ==
    LET old == [in_fenced_block |-> in_fenced_block, block_start_line |-> block_start_line,
                fence_char |-> fence_char, fence_count |-> fence_count]
        opened == [in_fenced_block |-> TRUE, block_start_line |-> n,
                   fence_char |-> current_char(line), fence_count |-> current_count(line)]
    IN  IF ~FenceMatch(line) THEN old
        ELSE IF ~in_fenced_block THEN opened
        ELSE IF current_char(line) = fence_char /\ current_count(line) >= fence_count
        THEN [old EXCEPT !.in_fenced_block = FALSE, !.fence_char = None]
        ELSE opened
FenceStepKeepingChar(n, line) ==
    LET old == [in_fenced_block |-> in_fenced_block, block_start_line |-> block_start_line,
                fence_char |-> fence_char, fence_count |-> fence_count]
    IN  IF ~FenceMatch(line) THEN old
        ELSE IF ~in_fenced_block
        THEN [in_fenced_block |-> TRUE, block_start_line |-> n,
              fence_char |-> current_char(line), fence_count |-> current_count(line)]
        ELSE IF current_char(line) = fence_char /\ current_count(line) >= fence_count
        THEN [old EXCEPT !.in_fenced_block = FALSE]
        ELSE old
\* mutant: a fence with a language tag opens a block and never closes one
FenceStepTagOpensOnly(n, line) ==
    LET old == [in_fenced_block |-> in_fenced_block, block_start_line |-> block_start_line,
                fence_char |-> fence_char, fence_count |-> fence_count]
    IN  IF ~FenceMatch(line) THEN old
        ELSE IF ~in_fenced_block
        THEN [in_fenced_block |-> TRUE, block_start_line |-> n,
              fence_char |-> current_char(line), fence_count |-> current_count(line)]
        ELSE IF /\ current_char(line) = fence_char /\ current_count(line) >= fence_count
                /\ Len(Strip(line)) = current_count(line)
        THEN [old EXCEPT !.in_fenced_block = FALSE, !.fence_char = None]
        ELSE old
FenceStep(n, line) ==
    LET old == [in_fenced_block |-> in_fenced_block, block_start_line |-> block_start_line,
                fence_char |-> fence_char, fence_count |-> fence_count]
    IN  IF ~FenceMatch(line) THEN old
        ELSE IF ~in_fenced_block
        THEN [in_fenced_block |-> TRUE, block_start_line |-> n,
              fence_char |-> current_char(line), fence_count |-> current_count(line)]
        ELSE IF current_char(line) = fence_char /\ current_count(line) >= fence_count
        THEN [old EXCEPT !.in_fenced_block = FALSE, !.fence_char = None]
        ELSE old

\* lines 306-319, given in_fenced_block as the fence test left it
unmatched_backticks(n, line, inside) ==
    LET backtick_count == Count(line, BT)
        triple_count == Count(line, BT \o BT \o BT)
        single_count == backtick_count - (triple_count * 3)
    IN  IF ~inside /\ single_count % 2 # 0 /\ ~StartsWith(Strip(line), BT \o BT \o BT)
        THEN <<ValidationIssue(n, "unmatched_backticks", "warning",
                   "Possible unmatched inline code backticks", line,
                   "Ensure backticks are properly paired")>>
        ELSE <<>>

\* mutant: the issue is reported at the last line of the document
unclosed_at_last_line ==
    IF in_fenced_block
    THEN <<ValidationIssue(Len(lines), "unclosed_code_block", "error",
               "Unclosed fenced code block", lines[block_start_line],
               "Add closing fence: "
                   \o (IF fence_char = BT THEN Repeat(BT, fence_count)
                       ELSE Repeat("~", fence_count)))>>
    ELSE <<>>
\* lines 321-330
unclosed_code_block ==
    IF in_fenced_block
    THEN <<ValidationIssue(block_start_line, "unclosed_code_block", "error",
               "Unclosed fenced code block", lines[block_start_line],
               "Add closing fence: "
                   \o (IF fence_char = BT THEN Repeat(BT, fence_count)
                       ELSE Repeat("~", fence_count)))>>
    ELSE <<>>

----------------------------------------------------------------------------
(* validate_lists                                                          *)

\* list_item_pattern = ^(\s*)([-*+]|\d+[.)])\s+(.*)$ : <<>> or
\* <<[indent, marker, content]>>
ListItemMatch(line) ==
    LET ws == Len(line) - Len(LStrip(line))
        d == Cardinality({k \in (ws + 1)..Len(line) : \A j \in (ws + 1)..k : IsDigit(At(line, j))})
        mlen == IF At(line, ws + 1) \in {"-", "*", "+"} THEN 1
                ELSE IF d > 0 /\ At(line, ws + d + 1) \in {".", ")"} THEN d + 1
                ELSE 0
        after == SubSeq(line, ws + mlen + 1, Len(line))
    IN  IF mlen > 0 /\ IsSpace(At(after, 1))
        THEN <<[indent |-> ws, marker |-> SubSeq(line, ws + 1, ws + mlen),
                content |-> LStrip(after)]>>
        ELSE <<>>

\* mutant: the indentation tested without the continuity flag
ListIssuesWithoutContinuity(n, line) ==
    LET m == ListItemMatch(line)
    IN  IF m = <<>> THEN <<>>
        ELSE LET indent == m[1].indent
                 marker == m[1].marker
                 item == m[1].content
             IN  (IF indent > 0 /\ indent % 2 # 0 /\ indent % 4 # 0
                  THEN <<ValidationIssue(n, "inconsistent_indent", "info",
                             "Non-standard list indentation (use 2 or 4 spaces)", line,
                             Repeat("  ", indent \div 2) \o marker \o " " \o item)>>
                  ELSE <<>>)
                 \o (IF Strip(item) = ""
                     THEN <<ValidationIssue(n, "empty_list_item", "warning",
                                "Empty list item", line,
                                "Add content or remove empty item")>>
                     ELSE <<>>)
\* the issues the loop body of validate_lists appends for line n
ListIssues(n, line) ==
    LET m == ListItemMatch(line)
    IN  IF m = <<>> THEN <<>>
        ELSE LET indent == m[1].indent
                 marker == m[1].marker
                 item == m[1].content
             IN  (IF prev_was_list /\ indent > 0 /\ indent % 2 # 0 /\ indent % 4 # 0
                  THEN <<ValidationIssue(n, "inconsistent_indent", "info",
                             "Non-standard list indentation (use 2 or 4 spaces)", line,
                             Repeat("  ", indent \div 2) \o marker \o " " \o item)>>
                  ELSE <<>>)
                 \o (IF Strip(item) = ""
                     THEN <<ValidationIssue(n, "empty_list_item", "warning",
                                "Empty list item", line,
                                "Add content or remove empty item")>>
                     ELSE <<>>)

----------------------------------------------------------------------------
(* validate_images                                                         *)

ImageIssues1(n, m) ==
    LET alt_text == m.text
        url == Strip(m.url)
        img_path == PathJoin(base_dir, url)
    IN  (IF alt_text = ""
         THEN <<ValidationIssue(n, "missing_alt_text", "warning",
                    "Image missing alt text (accessibility issue)", m.whole,
                    "![descriptive alt text](" \o url \o ")")>>
         ELSE <<>>)
        \o (IF url = ""
            THEN <<ValidationIssue(n, "empty_image_url", "error", "Empty image URL",
                       m.whole, "![" \o alt_text \o "](path/to/image.png)")>>
            ELSE IF ~(StartsWith(url, "http://") \/ StartsWith(url, "https://")
                        \/ StartsWith(url, "data:"))
                    /\ ~PathExists(img_path)
            THEN <<ValidationIssue(n, "missing_image", "error",
                       "Image file not found: " \o url, m.whole,
                       "Add image at: " \o img_path)>>
            ELSE <<>>)

\* the issues the loop body of validate_images appends for line n
ImageIssues(n, line) ==
    LET ms == ImageMatches(line, 1)
    IN  Flatten([k \in 1..Len(ms) |-> ImageIssues1(n, ms[k])])

----------------------------------------------------------------------------
(* validate_emphasis                                                       *)

\* re.sub(r'^[^^]+^', '', line), with ^ outside the brackets the backtick:
\* a backtick, one or more characters that are not backticks, a backtick
RECURSIVE RemoveCodeSpans(_, _)
RemoveCodeSpans(line, s) ==
    IF s > Len(line) THEN ""
    ELSE LET c == Find(line, BT, s + 1)
         IN  IF At(line, s) = BT /\ c > s + 1
             THEN RemoveCodeSpans(line, c + 1)
             ELSE At(line, s) \o RemoveCodeSpans(line, s + 1)

\* the markers counted with the code spans left in
EmphasisIssuesWithCode(n, line) ==
    IF StartsWith(Strip(line), BT \o BT \o BT) \/ StartsWith(Strip(line), "~~~")
    THEN <<>>
    ELSE (IF Count(line, "**") % 2 # 0
          THEN <<ValidationIssue(n, "unmatched_bold", "warning",
                     "Possibly unmatched bold markers (**)", line,
                     "Ensure ** markers are properly paired")>>
          ELSE <<>>)
         \o (IF Count(line, "__") % 2 # 0
             THEN <<ValidationIssue(n, "unmatched_bold", "warning",
                        "Possibly unmatched bold markers (__)", line,
                        "Ensure __ markers are properly paired")>>
             ELSE <<>>)

\* the asterisks counted one by one instead of the pairs
EmphasisIssuesPerAsterisk(n, line) ==
    IF StartsWith(Strip(line), BT \o BT \o BT) \/ StartsWith(Strip(line), "~~~")
    THEN <<>>
    ELSE LET line_without_code == RemoveCodeSpans(line, 1)
         IN  (IF Count(line_without_code, "*") % 2 # 0
              THEN <<ValidationIssue(n, "unmatched_bold", "warning",
                         "Possibly unmatched bold markers (**)", line,
                         "Ensure ** markers are properly paired")>>
              ELSE <<>>)
             \o (IF Count(line_without_code, "_") % 2 # 0
                 THEN <<ValidationIssue(n, "unmatched_bold", "warning",
                            "Possibly unmatched bold markers (__)", line,
                            "Ensure __ markers are properly paired")>>
                 ELSE <<>>)

\* the issues the loop body of validate_emphasis appends for line n
\* mutant: no line checked once the code block checker has left a block open
EmphasisIssuesOutsideBlocks(n, line) ==
    IF in_fenced_block
       \/ StartsWith(Strip(line), BT \o BT \o BT) \/ StartsWith(Strip(line), "~~~")
    THEN <<>>
    ELSE LET line_without_code == RemoveCodeSpans(line, 1)
         IN  (IF Count(line_without_code, "**") % 2 # 0
              THEN <<ValidationIssue(n, "unmatched_bold", "warning",
                         "Possibly unmatched bold markers (**)", line,
                         "Ensure ** markers are properly paired")>>
              ELSE <<>>)
             \o (IF Count(line_without_code, "__") % 2 # 0
                 THEN <<ValidationIssue(n, "unmatched_bold", "warning",
                            "Possibly unmatched bold markers (__)", line,
                            "Ensure __ markers are properly paired")>>
                 ELSE <<>>)

EmphasisIssues(n, line) ==
    IF StartsWith(Strip(line), BT \o BT \o BT) \/ StartsWith(Strip(line), "~~~")
    THEN <<>>
    ELSE LET line_without_code == RemoveCodeSpans(line, 1)
         IN  (IF Count(line_without_code, "**") % 2 # 0
              THEN <<ValidationIssue(n, "unmatched_bold", "warning",
                         "Possibly unmatched bold markers (**)", line,
                         "Ensure ** markers are properly paired")>>
              ELSE <<>>)
             \o (IF Count(line_without_code, "__") % 2 # 0
                 THEN <<ValidationIssue(n, "unmatched_bold", "warning",
                            "Possibly unmatched bold markers (__)", line,
                            "Ensure __ markers are properly paired")>>
                 ELSE <<>>)

----------------------------------------------------------------------------
(* validate_tables                                                         *)

\* '|' in line, and the stripped line starts or ends with a pipe
IsTableLine(line) ==
    /\ Find(line, "|", 1) > 0
    /\ (StartsWith(Strip(line), "|") \/ EndsWith(Strip(line), "|"))

\* len([c for c in stripped.split('|') if c.strip() or c == ''])
Cols(line) ==
    LET cells == Split(Strip(line), "|")
    IN  Cardinality({k \in 1..Len(cells) : Strip(cells[k]) # "" \/ cells[k] = ""})

\* re.match(r'^[\s|:-]+$', stripped)
IsSeparatorRow(line) ==
    LET t == Strip(line)
    IN  t # "" /\ \A k \in 1..Len(t) : IsSpace(At(t, k)) \/ At(t, k) \in {"|", ":", "-"}

\* the issues the loop body of validate_tables appends for line n
TableIssues(n, line) ==
    IF IsTableLine(line) /\ in_table /\ Cols(line) # header_cols /\ ~IsSeparatorRow(line)
    THEN <<ValidationIssue(n, "table_column_mismatch", "error",
               "Table has inconsistent columns (expected " \o ToString(header_cols)
                   \o ", found " \o ToString(Cols(line)) \o ")",
               line, "Adjust to " \o ToString(header_cols) \o " columns")>>
    ELSE <<>>

----------------------------------------------------------------------------
(* The sort of validate_all and the result of validate_markdown_file.      *)

\* list.sort(key=lambda x: x.line_number) is stable: built here by inserting
\* each issue, in list order, behind the issues whose key is not greater
\* mutants: a sort that leaves the list as it is; a sort that puts an issue
\* before the issues of its own line
InsertAtEnd(sorted, x) == Append(sorted, x)
InsertBeforeTies(sorted, x) ==
    LET k == Cardinality({j \in 1..Len(sorted) : sorted[j].line_number < x.line_number})
    IN  SubSeq(sorted, 1, k) \o <<x>> \o SubSeq(sorted, k + 1, Len(sorted))
InsertByLine(sorted, x) ==
    LET k == Cardinality({j \in 1..Len(sorted) : sorted[j].line_number <= x.line_number})
    IN  SubSeq(sorted, 1, k) \o <<x>> \o SubSeq(sorted, k + 1, Len(sorted))
RECURSIVE SortByLine(_)
SortByLine(s) ==
    IF s = <<>> THEN <<>>
    ELSE InsertByLine(SortByLine(SubSeq(s, 1, Len(s) - 1)), s[Len(s)])

\* [i for i in issues if i['severity'] == sev]
BySeverity(iss, sev) == SelectSeq(iss, LAMBDA x : x.severity = sev)

\* mutant: the total leaves the info issues out
total_without_info(iss) == Len(BySeverity(iss, "error")) + Len(BySeverity(iss, "warning"))
total_issues(iss) == Len(iss)

Result(iss) ==
    LET errors == BySeverity(iss, "error")
        warnings == BySeverity(iss, "warning")
        info == BySeverity(iss, "info")
    IN  [file_path |-> file_path, total_issues |-> total_issues(iss),
         errors |-> Len(errors), warnings |-> Len(warnings), info |-> Len(info),
         issues |-> iss,
         summary |-> "Found " \o ToString(Len(errors)) \o " errors, "
                        \o ToString(Len(warnings)) \o " warnings, and "
                        \o ToString(Len(info)) \o " info messages"]

----------------------------------------------------------------------------
(* load_file                                                               *)

\* str(e) of the exception open() or read() raised
ReadError ==
    IF file = "denied" THEN "[Errno 13] Permission denied: '" \o file_path \o "'"
    ELSE "'utf-8' codec can't decode byte 0xff in position 0: invalid start byte"

file_error ==
    IF file = "missing"
    THEN ValidationIssue(0, "file_error", "error", "File not found: " \o file_path, "",
                         "Verify the file path is correct")
    ELSE ValidationIssue(0, "file_error", "error", "Error reading file: " \o ReadError, "",
                         "Check file permissions and encoding")

\* where validate_all goes after load_file returned ok
\* mutant: the value load_file returns is ignored
AfterLoadIgnored(ok) == "headers"
AfterLoad(ok) == IF ok THEN "headers" ELSE "return"

\* self.issues = [] of __init__
\* mutant: the validators share one issue list
SharedIssues == issues
NewIssues == <<>>

----------------------------------------------------------------------------
(* The actions: validate_markdown_file, step by step.                      *)

\* validate_markdown_file is called (the second time once the first call has
\* returned; a handler of src/web_app.py calls it once, with the temporary
\* file written): MarkdownValidator(file_path)
Call ==
    /\ \/ pc = "idle" /\ handler \in {"none", "validate"}
       \/ pc = "done" /\ run = 1 /\ handler = "none"
    /\ run' = IF pc = "idle" THEN 1 ELSE run + 1
    /\ first_result' = IF pc = "idle" THEN first_result ELSE result
    /\ result' = None
    /\ lines' = <<>>
    /\ issues' = NewIssues
    /\ unsorted' = <<>>
    /\ pc' = "load"
    /\ i' = 1
    /\ UNCHANGED <<env, locals>>

load_file ==
    /\ pc = "load"
    /\ IF file = "ok"
       THEN /\ lines' = Split(content, "\n")
            /\ issues' = issues
       ELSE /\ lines' = lines
            /\ issues' = Append(issues, file_error)
    /\ pc' = AfterLoad(file = "ok")
    /\ i' = 1
    /\ prev_level' = 0
    /\ UNCHANGED <<env, run, reference_definitions, in_fenced_block, block_start_line,
                   fence_char, fence_count, prev_indent, prev_was_list, in_table,
                   table_start, header_cols, unsorted, result, first_result>>

validate_headers_line ==
    /\ pc = "headers" /\ i <= Len(lines)
    /\ issues' = issues \o HeaderIssues(i, lines[i])
    /\ prev_level' = IF HeaderMatches(lines[i]) THEN Len(HeaderHashes(lines[i]))
                     ELSE prev_level
    /\ i' = i + 1
    /\ UNCHANGED <<env, pc, run, lines, reference_definitions, in_fenced_block,
                   block_start_line, fence_char, fence_count, prev_indent, prev_was_list,
                   in_table, table_start, header_cols, unsorted, result, first_result>>

validate_headers_end ==
    /\ pc = "headers" /\ i > Len(lines)
    /\ pc' = "links_definitions"
    /\ i' = 1
    /\ reference_definitions' = <<>>
    /\ UNCHANGED <<env, run, lines, issues, prev_level, in_fenced_block, block_start_line,
                   fence_char, fence_count, prev_indent, prev_was_list, in_table,
                   table_start, header_cols, unsorted, result, first_result>>

\* first pass of validate_links
validate_links_collect ==
    /\ pc = "links_definitions" /\ i <= Len(lines)
    /\ reference_definitions' = CollectDefinition(reference_definitions, i, lines[i])
    /\ i' = i + 1
    /\ UNCHANGED <<env, pc, run, lines, issues, prev_level, in_fenced_block,
                   block_start_line, fence_char, fence_count, prev_indent, prev_was_list,
                   in_table, table_start, header_cols, unsorted, result, first_result>>

validate_links_collected ==
    /\ pc = "links_definitions" /\ i > Len(lines)
    /\ pc' = "links"
    /\ i' = 1
    /\ UNCHANGED <<env, run, lines, issues, locals, unsorted, result, first_result>>

\* second pass of validate_links
validate_links_line ==
    /\ pc = "links" /\ i <= Len(lines)
    /\ issues' = issues \o LinkIssues(i, lines[i])
    /\ i' = i + 1
    /\ UNCHANGED <<env, pc, run, lines, locals, unsorted, result, first_result>>

validate_links_end ==
    /\ pc = "links" /\ i > Len(lines)
    /\ pc' = "code_blocks"
    /\ i' = 1
    /\ in_fenced_block' = FALSE
    /\ block_start_line' = 0
    /\ fence_char' = None
    /\ fence_count' = 0
    /\ UNCHANGED <<env, run, lines, issues, prev_level, reference_definitions,
                   prev_indent, prev_was_list, in_table, table_start, header_cols,
                   unsorted, result, first_result>>

validate_code_blocks_line ==
    /\ pc = "code_blocks" /\ i <= Len(lines)
    /\ LET f == FenceStep(i, lines[i])
       IN  /\ in_fenced_block' = f.in_fenced_block
           /\ block_start_line' = f.block_start_line
           /\ fence_char' = f.fence_char
           /\ fence_count' = f.fence_count
           /\ issues' = issues \o unmatched_backticks(i, lines[i], f.in_fenced_block)
    /\ i' = i + 1
    /\ UNCHANGED <<env, pc, run, lines, prev_level, reference_definitions, prev_indent,
                   prev_was_list, in_table, table_start, header_cols, unsorted, result,
                   first_result>>

validate_code_blocks_end ==
    /\ pc = "code_blocks" /\ i > Len(lines)
    /\ issues' = issues \o unclosed_code_block
    /\ pc' = "lists"
    /\ i' = 1
    /\ prev_indent' = -1
    /\ prev_was_list' = FALSE
    /\ UNCHANGED <<env, run, lines, prev_level, reference_definitions, in_fenced_block,
                   block_start_line, fence_char, fence_count, in_table, table_start,
                   header_cols, unsorted, result, first_result>>

validate_lists_line ==
    /\ pc = "lists" /\ i <= Len(lines)
    /\ issues' = issues \o ListIssues(i, lines[i])
    /\ LET m == ListItemMatch(lines[i])
       IN  /\ prev_indent' = IF m # <<>> THEN m[1].indent ELSE prev_indent
           /\ prev_was_list' = IF m # <<>> THEN TRUE
                               ELSE IF Strip(lines[i]) # "" THEN FALSE
                               ELSE prev_was_list
    /\ i' = i + 1
    /\ UNCHANGED <<env, pc, run, lines, prev_level, reference_definitions,
                   in_fenced_block, block_start_line, fence_char, fence_count, in_table,
                   table_start, header_cols, unsorted, result, first_result>>

\* validate_all without its call of validate_images
validate_lists_end_skipping_images ==
    /\ pc = "lists" /\ i > Len(lines)
    /\ pc' = "emphasis"
    /\ i' = 1
    /\ UNCHANGED <<env, run, lines, issues, locals, unsorted, result, first_result>>

validate_lists_end ==
    /\ pc = "lists" /\ i > Len(lines)
    /\ pc' = "images"
    /\ i' = 1
    /\ UNCHANGED <<env, run, lines, issues, locals, unsorted, result, first_result>>

\* mutant: the image issues assigned to the sink instead of appended
validate_images_line_overwriting ==
    /\ pc = "images" /\ i <= Len(lines)
    /\ issues' = ImageIssues(i, lines[i])
    /\ i' = i + 1
    /\ UNCHANGED <<env, pc, run, lines, locals, unsorted, result, first_result>>

validate_images_line ==
    /\ pc = "images" /\ i <= Len(lines)
    /\ issues' = issues \o ImageIssues(i, lines[i])
    /\ i' = i + 1
    /\ UNCHANGED <<env, pc, run, lines, locals, unsorted, result, first_result>>

validate_images_end ==
    /\ pc = "images" /\ i > Len(lines)
    /\ pc' = "emphasis"
    /\ i' = 1
    /\ UNCHANGED <<env, run, lines, issues, locals, unsorted, result, first_result>>

validate_emphasis_line ==
    /\ pc = "emphasis" /\ i <= Len(lines)
    /\ issues' = issues \o EmphasisIssues(i, lines[i])
    /\ i' = i + 1
    /\ UNCHANGED <<env, pc, run, lines, locals, unsorted, result, first_result>>

validate_emphasis_end ==
    /\ pc = "emphasis" /\ i > Len(lines)
    /\ pc' = "tables"
    /\ i' = 1
    /\ in_table' = FALSE
    /\ table_start' = 0
    /\ header_cols' = 0
    /\ UNCHANGED <<env, run, lines, issues, prev_level, reference_definitions,
                   in_fenced_block, block_start_line, fence_char, fence_count,
                   prev_indent, prev_was_list, unsorted, result, first_result>>

\* mutant: a blank line ends the table region as well
validate_tables_line_blank_ends ==
    /\ pc = "tables" /\ i <= Len(lines)
    /\ issues' = issues \o TableIssues(i, lines[i])
    /\ IF IsTableLine(lines[i])
       THEN /\ in_table' = TRUE
            /\ table_start' = IF in_table THEN table_start ELSE i
            /\ header_cols' = IF in_table THEN header_cols ELSE Cols(lines[i])
       ELSE /\ in_table' = IF Find(lines[i], "|", 1) = 0 /\ in_table
                           THEN FALSE ELSE in_table
            /\ UNCHANGED <<table_start, header_cols>>
    /\ i' = i + 1
    /\ UNCHANGED <<env, pc, run, lines, prev_level, reference_definitions,
                   in_fenced_block, block_start_line, fence_char, fence_count,
                   prev_indent, prev_was_list, unsorted, result, first_result>>

validate_tables_line ==
    /\ pc = "tables" /\ i <= Len(lines)
    /\ issues' = issues \o TableIssues(i, lines[i])
    /\ IF IsTableLine(lines[i])
       THEN /\ in_table' = TRUE
            /\ table_start' = IF in_table THEN table_start ELSE i
            /\ header_cols' = IF in_table THEN header_cols ELSE Cols(lines[i])
       ELSE /\ in_table' = IF Find(lines[i], "|", 1) = 0 /\ in_table /\ Strip(lines[i]) # ""
                           THEN FALSE ELSE in_table
            /\ UNCHANGED <<table_start, header_cols>>
    /\ i' = i + 1
    /\ UNCHANGED <<env, pc, run, lines, prev_level, reference_definitions,
                   in_fenced_block, block_start_line, fence_char, fence_count,
                   prev_indent, prev_was_list, unsorted, result, first_result>>

validate_tables_end ==
    /\ pc = "tables" /\ i > Len(lines)
    /\ pc' = "sort"
    /\ i' = 1
    /\ UNCHANGED <<env, run, lines, issues, locals, unsorted, result, first_result>>

\* self.issues.sort(key=lambda x: x.line_number)
sort_issues ==
    /\ pc = "sort"
    /\ unsorted' = issues
    /\ issues' = SortByLine(issues)
    /\ pc' = "return"
    /\ UNCHANGED <<env, run, i, lines, locals, result, first_result>>

\* validate_all returns the issues as dictionaries; validate_markdown_file
\* counts them and returns
return_result ==
    /\ pc = "return"
    /\ result' = Result(issues)
    /\ pc' = "done"
    /\ UNCHANGED <<env, run, i, lines, issues, locals, unsorted, first_result>>

\* no other request
NoRequest == [pc |-> "none"]

\* what the running call owns: its temporary file, its MarkdownValidator
\* (self.lines, self.issues), the local variables of its methods and what it
\* returned
Suspended ==
    [file |-> file, content |-> content, pc |-> pc, run |-> run, i |-> i,
     lines |-> lines, issues |-> issues, prev_level |-> prev_level,
     reference_definitions |-> reference_definitions,
     in_fenced_block |-> in_fenced_block, block_start_line |-> block_start_line,
     fence_char |-> fence_char, fence_count |-> fence_count,
     prev_indent |-> prev_indent, prev_was_list |-> prev_was_list,
     in_table |-> in_table, table_start |-> table_start, header_cols |-> header_cols,
     unsorted |-> unsorted, result |-> result, first_result |-> first_result]

\* the two calls appending to one list of issues
ResumedOnSharedIssues == [parked EXCEPT !.issues = issues]
\* the call that is resumed goes on with what it owns
Resumed == parked

\* the running call stops where it is and the call of the other request goes
\* on where it had stopped; the file system and the probe are the same for both
Switch ==
    /\ parked # NoRequest
    /\ parked' = Suspended
    /\ LET r == Resumed
       IN  /\ file' = r.file
           /\ content' = r.content
           /\ pc' = r.pc
           /\ run' = r.run
           /\ i' = r.i
           /\ lines' = r.lines
           /\ issues' = r.issues
           /\ prev_level' = r.prev_level
           /\ reference_definitions' = r.reference_definitions
           /\ in_fenced_block' = r.in_fenced_block
           /\ block_start_line' = r.block_start_line
           /\ fence_char' = r.fence_char
           /\ fence_count' = r.fence_count
           /\ prev_indent' = r.prev_indent
           /\ prev_was_list' = r.prev_was_list
           /\ in_table' = r.in_table
           /\ table_start' = r.table_start
           /\ header_cols' = r.header_cols
           /\ unsorted' = r.unsorted
           /\ result' = r.result
           /\ first_result' = r.first_result
    /\ UNCHANGED <<exists, probe, web, reused>>

Next ==
    \/ Call
    \/ load_file
    \/ validate_headers_line
    \/ validate_headers_end
    \/ validate_links_collect
    \/ validate_links_collected
    \/ validate_links_line
    \/ validate_links_end
    \/ validate_code_blocks_line
    \/ validate_code_blocks_end
    \/ validate_lists_line
    \/ validate_lists_end
    \/ validate_images_line
    \/ validate_images_end
    \/ validate_emphasis_line
    \/ validate_emphasis_end
    \/ validate_tables_line
    \/ validate_tables_end
    \/ sort_issues
    \/ return_result

\* two requests in flight
NextConcurrent == Next \/ Switch

----------------------------------------------------------------------------
(* src/web_app.py: the handlers of /api/validate and /api/validate-file.   *)

\* data.get('content', '') of a JSON body, or the bytes of an upload: text,
\* a string with a lone surrogate (JSON "\ud800"), a JSON value that is
\* no string, or a body that request.json() or bytes.decode rejects
Text(doc) == [kind |-> "text", text |-> doc]
Unencodable == [kind |-> "unencodable"]
Number == [kind |-> "number"]
Malformed == [kind |-> "malformed"]

\* validate_markdown up to the temporary file: request.json(), the test of
\* the content
validate_markdown_request ==
    /\ endpoint = "/api/validate" /\ handler = "request"
    /\ IF body = Malformed
       THEN handler' = "answered" /\ status' = 500
       ELSE IF body = Text("")
            THEN handler' = "answered" /\ status' = 400
            ELSE handler' = "create" /\ status' = status
    /\ UNCHANGED <<file, content, exists, probe, parked, reused, endpoint, body, temp_created,
                   pc, run, i, lines, issues, locals, unsorted, result, first_result>>

\* validate_file up to the temporary file: file.read(), content.decode
validate_file_request ==
    /\ endpoint = "/api/validate-file" /\ handler = "request"
    /\ IF body = Malformed
       THEN handler' = "answered" /\ status' = 500
       ELSE handler' = "create" /\ status' = status
    /\ UNCHANGED <<file, content, exists, probe, parked, reused, endpoint, body, temp_created,
                   pc, run, i, lines, issues, locals, unsorted, result, first_result>>

\* tempfile.NamedTemporaryFile(mode='w', suffix='.md', delete=False, ...)
NamedTemporaryFile ==
    /\ handler = "create"
    /\ file' = "ok"
    /\ content' = ""
    /\ temp_created' = TRUE
    /\ handler' = "write"
    /\ UNCHANGED <<exists, probe, parked, reused, endpoint, body, status,
                   pc, run, i, lines, issues, locals, unsorted, result, first_result>>

\* f.write(content); temp_path = f.name: write raises UnicodeEncodeError or
\* TypeError for a content that is no encodable string, and the handler
\* answers from its except clause
write ==
    /\ handler = "write"
    /\ IF body.kind = "text"
       THEN content' = body.text /\ handler' = "validate" /\ status' = status
       ELSE content' = content /\ handler' = "answered" /\ status' = 500
    /\ UNCHANGED <<file, exists, probe, parked, reused, endpoint, body, temp_created,
                   pc, run, i, lines, issues, locals, unsorted, result, first_result>>

\* return JSONResponse(content=result), through finally: os.unlink(temp_path)
unlink_and_answer ==
    /\ handler = "validate" /\ pc = "done"
    /\ file' = "missing"
    /\ content' = ""
    /\ handler' = "answered"
    /\ status' = 200
    /\ UNCHANGED <<exists, probe, parked, reused, endpoint, body, temp_created,
                   pc, run, i, lines, issues, locals, unsorted, result, first_result>>

\* an exception leaves validate_markdown_file (MemoryError, say, which no
\* checker catches): finally: os.unlink(temp_path), then the except clause
unlink_and_answer_error ==
    /\ handler = "validate" /\ pc \notin {"idle", "done"}
    /\ file' = "missing"
    /\ content' = ""
    /\ handler' = "answered"
    /\ status' = 500
    /\ pc' = "raised"
    /\ UNCHANGED <<exists, probe, parked, reused, endpoint, body, temp_created,
                   run, i, lines, issues, locals, unsorted, result, first_result>>

\* mutant: the second call starts from an empty self.issues
validate_all_again_cleared ==
    /\ pc = "done" /\ run = 1 /\ handler = "none"
    /\ reused' = TRUE
    /\ run' = run + 1
    /\ first_result' = result
    /\ result' = None
    /\ issues' = <<>>
    /\ unsorted' = <<>>
    /\ pc' = "load"
    /\ i' = 1
    /\ UNCHANGED <<file, content, exists, probe, parked, web, lines, locals>>

\* validator.validate_all() called once more on the instance whose first
\* call has returned: nothing assigns self.issues outside __init__
validate_all_again ==
    /\ pc = "done" /\ run = 1 /\ handler = "none"
    /\ reused' = TRUE
    /\ run' = run + 1
    /\ first_result' = result
    /\ result' = None
    /\ issues' = issues
    /\ unsorted' = <<>>
    /\ pc' = "load"
    /\ i' = 1
    /\ UNCHANGED <<file, content, exists, probe, parked, web, lines, locals>>

NextReuse == Next \/ validate_all_again

\* between the two calls the file is written again with every fence line
\* replaced by a line of plain text: what was inside a fenced block lies
\* outside, and nothing else has changed for the second call
replace_fences ==
    /\ pc = "done" /\ run = 1 /\ handler = "none" /\ file = "ok"
    /\ \E k \in 1..Len(lines) : FenceMatch(lines[k])
    /\ content' = Join([k \in 1..Len(lines) |->
                            IF FenceMatch(lines[k]) THEN "x" ELSE lines[k]])
    /\ UNCHANGED <<file, exists, probe, parked, web, reused, pc, run, i, lines, issues,
                   locals, unsorted, result, first_result>>

NextEdit == Next \/ replace_fences

NextWeb ==
    \/ Next
    \/ validate_markdown_request
    \/ validate_file_request
    \/ NamedTemporaryFile
    \/ write
    \/ unlink_and_answer
    \/ unlink_and_answer_error

----------------------------------------------------------------------------
(* Initial states: a file whose lines are drawn from a pool, a file system *)
(* and probe answers for the targets the file mentions.                    *)


Documents(pool) == {Join(ls) : ls \in UNION {[1..n -> pool] : n \in 1..MaxLines}}

InitRequests(docs, targets, urls, outcomes, others) ==
    /\ file \in {"ok", "missing", "denied", "encoding"}
    /\ content \in IF file = "ok" THEN docs ELSE {""}
    /\ exists \in SUBSET {PathJoin(base_dir, t) : t \in {u \in targets : Contains(content, u)}}
    /\ probe \in [{u \in urls : Contains(content, u)} -> outcomes]
    /\ parked \in others
    /\ endpoint = "none"
    /\ body = None
    /\ handler = "none"
    /\ temp_created = FALSE
    /\ status = 0
    /\ reused = FALSE
    /\ pc = "idle"
    /\ run = 0
    /\ i = 1
    /\ lines = <<>>
    /\ issues = <<>>
    /\ prev_level = 0
    /\ reference_definitions = <<>>
    /\ in_fenced_block = FALSE
    /\ block_start_line = 0
    /\ fence_char = None
    /\ fence_count = 0
    /\ prev_indent = -1
    /\ prev_was_list = FALSE
    /\ in_table = FALSE
    /\ table_start = 0
    /\ header_cols = 0
    /\ unsorted = <<>>
    /\ result = None
    /\ first_result = None

InitDocs(docs, targets, urls, outcomes) ==
    InitRequests(docs, targets, urls, outcomes, {NoRequest})

InitWith(pool, targets, urls) == InitDocs(Documents(pool), targets, urls, ProbeOutcomes)

\* a document of every kind of line
MixedPool ==
    {"", "# T", "###x #", "^^^", "  - ", "|a|b|", "|**b [t][r]", "[e](http://h) ^c"}

Init == InitWith(MixedPool, {}, {"http://h"})
Spec == Init /\ [][Next]_vars

\* fences of both characters and several counts
FencePool == {"", "^^^", "^^^^", "^^^^^", "~~~", "~~~~", "^^^py", "a ^b"}
InitFence == InitWith(FencePool, {}, {})
SpecFence == InitFence /\ [][Next]_vars

\* fences, lines with an odd and an even number of backticks, and a line
\* that starts with three backticks without being a fence
BacktickPool == {"", "^^^", "^^^^", "^^^^^", "~~~", "a ^b", "^c^ d", "^^^a^"}
InitBackticks == InitWith(BacktickPool, {}, {})
SpecBackticks == InitBackticks /\ [][Next]_vars

\* headings of several levels, a line that is no heading, a heading without
\* text and a line that starts with seven hashes
HeaderPool == {"", "x", "# a", "## b", "#### c", "####### d", "##"}
InitHeaders == InitWith(HeaderPool, {}, {})
SpecHeaders == InitHeaders /\ [][Next]_vars

\* inline links to an anchor, to local files with and without a fragment and
\* to external URLs; the file system may hold the local file, a file whose
\* name is the URL with its fragment, both or neither
UrlPool == {"[a](#top)", "[b](x.md#s)", "[c](y.md) [d](http://h)", "[m](mailto:a@b)"}
InitUrls == InitWith(UrlPool, {"x.md", "x.md#s"}, {"http://h"})
SpecUrls == InitUrls /\ [][Next]_vars

\* list items with indentations 0 to 3, blank lines with and without white
\* space, and a non-empty line that is no list item
ListPool == {"", " ", "- a", " - b", "   1. c", "  - d", "-"}
InitLists == InitWith(ListPool, {}, {})
SpecLists == InitLists /\ [][Next]_vars

\* lines with an odd and an even number of each bold marker, markers inside
\* a code span, and lines that start with a fence marker
EmphasisPool == {"", "**a", "__a **b", "**a** __b__", "^**^ b", "^^^ **", " ~~~__"}
InitEmphasis == InitWith(EmphasisPool, {}, {})
SpecEmphasis == InitEmphasis /\ [][Next]_vars

\* one line or more for every checker to report on
FramePool == {"###x #", "^^^", " - ", "# ![](i.png) #", "|**b [t][r]", "|a|b|"}
InitFrame == InitWith(FramePool, {}, {})
SpecFrame == InitFrame /\ [][Next]_vars
SpecReuse == InitFrame /\ [][NextReuse]_vars
SpecEdit == InitFrame /\ [][NextEdit]_vars

\* images without alt text and without URL, an image inside the text of a
\* link, one whose alt text ends the URL of a link, and image URLs with a
\* fragment and of a mail address
ImagePool == {"![](i.png)", "[![](i.png)](x)", "![a]()", "![a](i.png#f)",
              "![a](mailto:m)", "[x](y ![)](u)"}
InitImages == InitWith(ImagePool, {"i.png", "i.png#f"}, {})
SpecImages == InitImages /\ [][Next]_vars

\* links to a mail address and to a telephone number, and a mailto: URL with
\* a host after the scheme
MailPool == {"[m](mailto:a@b)", "[t](tel:+1)", "[n](mailto://h)"}
InitMail == InitWith(MailPool, {}, {"mailto:a@b", "mailto://h"})
SpecMail == InitMail /\ [][Next]_vars

\* reference links and definitions, in both cases, defined and not
RefPool == {"", "[a][r]", "[a][R]", "[R]: u", "[r]: v", "[r][] [C][z]", " [z]: u", "[z]:"}
InitRefs == InitWith(RefPool, {}, {})
SpecRefs == InitRefs /\ [][Next]_vars

\* table rows, separator rows and a line that ends a table
TablePool == {"", "x", "|a|b", "|a", "| |a", "|-|-|-|", "|:-", "a|b"}
InitTables == InitWith(TablePool, {}, {})
SpecTables == InitTables /\ [][Next]_vars

\* inline links to external URLs that have a scheme and a host, one and two
\* to a line, and every kind of answer of the probe
ExternalLinkPool == {"", "[e](http://h)", "[f](https://g/p) [e](http://h)"}
AnswersAroundTheLimit ==
    {[kind |-> "response", status |-> 200], [kind |-> "response", status |-> 399],
     [kind |-> "response", status |-> 400], [kind |-> "timeout", status |-> 0],
     [kind |-> "request_error", status |-> 0], [kind |-> "exception", status |-> 0]}
InitExternalLinks ==
    InitDocs(Documents(ExternalLinkPool), {}, {"http://h", "https://g/p"},
             AnswersAroundTheLimit)
SpecExternalLinks == InitExternalLinks /\ [][Next]_vars

\* two requests: one whose document uses the reference r and has a header
\* with closing hashes, the other with a document that defines r
ConcurrentPool == {"[x][r]", "# a #"}
OtherDocuments == {"[r]: u\n## "}
\* a request that has not called validate_markdown_file yet
NewRequest(c) ==
    [file |-> "ok", content |-> c, pc |-> "idle", run |-> 0, i |-> 1, lines |-> <<>>,
     issues |-> <<>>, prev_level |-> 0, reference_definitions |-> <<>>,
     in_fenced_block |-> FALSE, block_start_line |-> 0, fence_char |-> None,
     fence_count |-> 0, prev_indent |-> -1, prev_was_list |-> FALSE, in_table |-> FALSE,
     table_start |-> 0, header_cols |-> 0, unsorted |-> <<>>, result |-> None,
     first_result |-> None]
InitConcurrent ==
    InitRequests(Documents(ConcurrentPool), {}, {}, ProbeOutcomes,
                 {NewRequest(c) : c \in OtherDocuments})
SpecConcurrent == InitConcurrent /\ [][NextConcurrent]_vars

\* the documents of the end-to-end scenarios, as the files hold them
UnmatchedBoldDocument == "# Title\n\nSome **bold text.\n"
EmptyHeaderDocument == "## \n"
NoHostDocument == "[broken](http://)\n"
EmptyDocument == ""
ScenarioDocuments ==
    {UnmatchedBoldDocument, EmptyHeaderDocument, NoHostDocument, EmptyDocument}
InitScenarios == InitDocs(ScenarioDocuments, {}, {"http://"}, ProbeOutcomes)
SpecScenarios == InitScenarios /\ [][Next]_vars

\* the requests to the two routes: documents of up to MaxLines lines, and
\* the bodies the handlers cannot read or write
WebPool == {"", "###x #"}
Bodies(route) ==
    {Text(d) : d \in Documents(WebPool)} \cup {Malformed}
        \cup (IF route = "/api/validate" THEN {Unencodable, Number} ELSE {})
InitWeb ==
    /\ endpoint \in {"/api/validate", "/api/validate-file"}
    /\ body \in Bodies(endpoint)
    /\ handler = "request"
    /\ temp_created = FALSE
    /\ status = 0
    /\ reused = FALSE
    /\ file = "missing"
    /\ content = ""
    /\ exists = {}
    /\ probe = <<>>
    /\ parked = NoRequest
    /\ pc = "idle"
    /\ run = 0
    /\ i = 1
    /\ lines = <<>>
    /\ issues = <<>>
    /\ prev_level = 0
    /\ reference_definitions = <<>>
    /\ in_fenced_block = FALSE
    /\ block_start_line = 0
    /\ fence_char = None
    /\ fence_count = 0
    /\ prev_indent = -1
    /\ prev_was_list = FALSE
    /\ in_table = FALSE
    /\ table_start = 0
    /\ header_cols = 0
    /\ unsorted = <<>>
    /\ result = None
    /\ first_result = None
SpecWeb == InitWeb /\ [][NextWeb]_vars

----------------------------------------------------------------------------
(* Properties.                                                             *)

Done == pc = "done"
Loaded == file = "ok"
\* validate_links has just returned; validate_code_blocks has just returned
LinksReturned == pc = "code_blocks" /\ i = 1
CodeBlocksReturned == pc = "lists" /\ i = 1

OfLine(iss, n) == SelectSeq(iss, LAMBDA x : x.line_number = n)
OfType(iss, ty) == SelectSeq(iss, LAMBDA x : x.issue_type = ty)
\* the issues the step to the next state appends
Appended == SubSeq(issues', Len(issues) + 1, Len(issues'))

\* the place of the checker that reports an issue type in the order of
\* validate_all; 0 for the issue of load_file
CheckerRank(ty) ==
    IF ty \in {"header_format", "empty_header", "header_hierarchy", "trailing_hashes"} THEN 1
    ELSE IF ty \in {"empty_link_text", "empty_url", "broken_local_link", "invalid_url_format",
                    "broken_external_link", "link_timeout", "undefined_reference"} THEN 2
    ELSE IF ty \in {"unmatched_backticks", "unclosed_code_block"} THEN 3
    ELSE IF ty \in {"inconsistent_indent", "empty_list_item"} THEN 4
    ELSE IF ty \in {"missing_alt_text", "empty_image_url", "missing_image"} THEN 5
    ELSE IF ty = "unmatched_bold" THEN 6
    ELSE IF ty = "table_column_mismatch" THEN 7
    ELSE 0

\* C1: the issue list a run returns is sorted by line number, whatever the
\* document and whatever the probe answered.
C1_Sorted ==
    Done => \A k \in 1..(Len(result.issues) - 1) :
                result.issues[k].line_number <= result.issues[k + 1].line_number
\* a run whose sink was not in line order before the sort
C1_Witness ==
    /\ Done /\ Loaded
    /\ \E k \in 1..(Len(unsorted) - 1) :
           unsorted[k].line_number > unsorted[k + 1].line_number
    /\ \E k \in 1..Len(result.issues) : result.issues[k].issue_type = "broken_external_link"

\* C2: issues of one line are returned in the order the checkers appended
\* them, which is the order headers, links, code blocks, lists, images,
\* emphasis, tables; the sort reorders no two issues of equal line number.
C2_TieOrder ==
    (Done /\ Loaded) =>
        /\ \A n \in 0..Len(lines) : OfLine(result.issues, n) = OfLine(unsorted, n)
        /\ \A k \in 1..(Len(result.issues) - 1) :
               result.issues[k].line_number = result.issues[k + 1].line_number
                   => CheckerRank(result.issues[k].issue_type)
                          <= CheckerRank(result.issues[k + 1].issue_type)
\* a line with issues of three checkers, in a sink the sort had to reorder
C2_Witness ==
    /\ Done /\ Loaded
    /\ unsorted # result.issues
    /\ \E n \in 1..Len(lines) :
           Cardinality({CheckerRank(OfLine(result.issues, n)[k].issue_type) :
                           k \in 1..Len(OfLine(result.issues, n))}) >= 3

\* C3: a second run on the unmodified file, with the same file system and
\* probe answers, returns the result of the first run.
C3_Idempotent == (Done /\ run = 2) => result = first_result
C3_Witness == Done /\ run = 2 /\ Len(result.issues) >= 3 /\ result.issues = first_result.issues

\* C4: when the file cannot be loaded no checker runs, and the run returns
\* the single issue of line 0, type file_error, severity error, counted as
\* one issue and one error.
C4_LoadFailure ==
    ~Loaded =>
        /\ pc \in {"idle", "load", "return", "done"}
        /\ Done => /\ Len(result.issues) = 1
                   /\ result.issues[1].line_number = 0
                   /\ result.issues[1].issue_type = "file_error"
                   /\ result.issues[1].severity = "error"
                   /\ result.total_issues = 1 /\ result.errors = 1
                   /\ result.warnings = 0 /\ result.info = 0
C4_Witness == Done /\ file = "denied" /\ run = 1 /\ Len(result.issues) = 1

\* C5: in every result each severity is error, warning or info,
\* total_issues is the length of issues and the sum of the three counts,
\* and each count is the number of issues of its severity.
NumberOf(iss, sev) == Cardinality({k \in 1..Len(iss) : iss[k].severity = sev})
C5_Counts ==
    Done =>
        /\ \A k \in 1..Len(result.issues) :
               result.issues[k].severity \in {"error", "warning", "info"}
        /\ result.total_issues = Len(result.issues)
        /\ result.total_issues = result.errors + result.warnings + result.info
        /\ result.errors = NumberOf(result.issues, "error")
        /\ result.warnings = NumberOf(result.issues, "warning")
        /\ result.info = NumberOf(result.issues, "info")
C5_Witness == Done /\ result.errors >= 2 /\ result.warnings >= 1 /\ result.info >= 1

----------------------------------------------------------------------------
(* Fenced code blocks.                                                     *)

\* The fence state read off the document alone: the line whose fence opened
\* the block that is open after lines 1..k, or 0 when no block is open then.
\* A fence line opens a block when none is open, closes the open block when
\* it has the opener's character and at least the opener's count, and is
\* inert otherwise.
RECURSIVE OpenerAfter(_)
OpenerAfter(k) ==
    IF k = 0 THEN 0
    ELSE LET o == OpenerAfter(k - 1)
         IN  IF ~FenceMatch(lines[k]) THEN o
             ELSE IF o = 0 THEN k
             ELSE IF /\ At(Strip(lines[k]), 1) = At(Strip(lines[o]), 1)
                     /\ FenceRun(lines[k]) >= FenceRun(lines[o])
                  THEN 0
             ELSE o

\* the code block checker is about to process a fence line while a block is open
AtFenceInBlock ==
    /\ pc = "code_blocks" /\ i <= Len(lines)
    /\ in_fenced_block /\ FenceMatch(lines[i])
SameCharAsOpener == current_char(lines[i]) = current_char(lines[block_start_line])

\* no line from k on is a fence of the opener's character and at least its count
NoCloserFrom(k) ==
    \A j \in k..Len(lines) :
        ~(/\ FenceMatch(lines[j])
          /\ current_char(lines[j]) = current_char(lines[block_start_line])
          /\ FenceRun(lines[j]) >= FenceRun(lines[block_start_line]))

\* C6: a fence of the other character never closes the open block, whatever
\* its count; and when no fence of the opener's character and sufficient
\* count follows, the block stays open to the end of the scan, where
\* unclosed_code_block is reported.
C6_OtherCharNeverCloses ==
    [][/\ (AtFenceInBlock /\ ~SameCharAsOpener)
            => (in_fenced_block' /\ block_start_line' = block_start_line)
       /\ (pc = "code_blocks" /\ in_fenced_block /\ NoCloserFrom(i))
            => /\ in_fenced_block' /\ block_start_line' = block_start_line
               /\ pc' = "lists" => Len(OfType(issues', "unclosed_code_block")) = 1]_vars
\* a backtick block met a tilde fence of at least its count and ended unclosed
C6_Witness ==
    /\ pc = "lists" /\ in_fenced_block
    /\ current_char(lines[block_start_line]) = BT
    /\ \E j \in (block_start_line + 1)..Len(lines) :
           /\ FenceMatch(lines[j]) /\ current_char(lines[j]) = "~"
           /\ FenceRun(lines[j]) >= FenceRun(lines[block_start_line])
    /\ Len(OfType(issues, "unclosed_code_block")) = 1

\* C7: a fence of the opener's character closes the block exactly when its
\* count is at least the opener's count.
C7_CountRule ==
    [][(AtFenceInBlock /\ SameCharAsOpener)
          => (in_fenced_block'
                  <=> FenceRun(lines[i]) < FenceRun(lines[block_start_line]))]_vars
\* four backticks, not closed by three, closed by five
C7_Witness ==
    /\ pc = "code_blocks" /\ i = 4
    /\ lines = <<Repeat(BT, 4), Repeat(BT, 3), Repeat(BT, 5)>>
    /\ ~in_fenced_block /\ block_start_line = 1

\* C10: unclosed_code_block is reported exactly when the fence state is open
\* after the last line, once, at the line of the fence that opened the block
\* still open, suggesting that fence's character repeated its count.
C10_Unclosed ==
    (CodeBlocksReturned /\ Loaded) =>
        LET o == OpenerAfter(Len(lines))
            u == OfType(issues, "unclosed_code_block")
        IN  /\ in_fenced_block <=> o # 0
            /\ Len(u) = IF in_fenced_block THEN 1 ELSE 0
            /\ in_fenced_block =>
                   /\ u[1].line_number = o
                   /\ u[1].suggested_fix
                          = "Add closing fence: "
                                \o Repeat(At(Strip(lines[o]), 1), FenceRun(lines[o]))
\* a block opened on line 2 by four fence characters, open after a later fence
C10_Witness ==
    /\ CodeBlocksReturned /\ in_fenced_block /\ Len(lines) = 3
    /\ block_start_line = 2 /\ fence_count = 4 /\ FenceMatch(lines[3])

\* C18: while a block is open, a fence line that does not close it (the
\* other character, or the opener's character with a smaller count) leaves
\* the fence state as it is: the block stays open, and its start line, fence
\* character and fence count remain those of the opening fence; no block is
\* opened inside the block.
C18_InertFence ==
    [][(/\ AtFenceInBlock
        /\ ~(/\ SameCharAsOpener
             /\ FenceRun(lines[i]) >= FenceRun(lines[block_start_line])))
          => /\ in_fenced_block'
             /\ UNCHANGED <<block_start_line, fence_char, fence_count>>
             /\ block_start_line' < i
             /\ fence_char' = current_char(lines[block_start_line])
             /\ fence_count' = FenceRun(lines[block_start_line])]_vars
\* four tildes, then three tildes inside the block
C18_Witness ==
    /\ pc = "code_blocks" /\ i = 3
    /\ lines[1] = "~~~~" /\ lines[2] = "~~~"
    /\ in_fenced_block /\ block_start_line = 1 /\ fence_char = "~" /\ fence_count = 4

\* C19: after every line the code block checker has processed, an open block
\* has a fence character that is the backtick or the tilde, a fence count of
\* at least 3 and a start line that is a fence line among the lines
\* processed; when no block is open the fence character is None.
C19_FenceState ==
    (Loaded /\ pc = "code_blocks") =>
        /\ in_fenced_block =>
               /\ fence_char \in {BT, "~"}
               /\ fence_count >= 3
               /\ block_start_line \in 1..(i - 1)
               /\ FenceMatch(lines[block_start_line])
        /\ ~in_fenced_block => fence_char = None
\* a block closed and another one opened by the last line
C19_Witness ==
    /\ pc = "code_blocks" /\ i = 4
    /\ lines = <<Repeat(BT, 3), Repeat(BT, 3), "~~~~">>
    /\ in_fenced_block /\ block_start_line = 3 /\ fence_char = "~" /\ fence_count = 4

\* backticks minus three for each triple of backticks
SingleBackticks(line) == Count(line, BT) - 3 * Count(line, BT \o BT \o BT)

\* C20: unmatched_backticks is reported for a line exactly when the line is
\* outside any fenced block, its backticks less three for each triple are odd
\* in number, and the line is not a fence line; in particular never for a
\* line inside an open block, nor for a fence that opens or closes a block.
C20_UnmatchedBackticks ==
    [][(Loaded /\ pc = "code_blocks" /\ i <= Len(lines))
          => ((/\ Len(issues') = Len(issues) + 1
               /\ issues'[Len(issues')].issue_type = "unmatched_backticks"
               /\ issues'[Len(issues')].line_number = i)
                 <=> (/\ OpenerAfter(i - 1) = 0
                      /\ SingleBackticks(lines[i]) % 2 # 0
                      /\ ~FenceMatch(lines[i])))]_vars

----------------------------------------------------------------------------
(* Reference links.                                                        *)

\* the identifiers, lowercased, that some line of the document defines
DefinedIds ==
    {Lower(RefDefMatch(lines[j])[1].ref) :
        j \in {k \in 1..Len(lines) : RefDefMatch(lines[k]) # <<>>}}

\* the usages of a line whose identifier no line defines
UndefinedUsages(n) ==
    SelectSeq(RefLinkMatches(lines[n], 1), LAMBDA m : RefId(m) \notin DefinedIds)

\* C8: a reference link yields one undefined_reference error, at its line,
\* exactly when no line of the document, before or after it, defines its
\* identifier, compared without regard to case.
C8_UndefinedReference ==
    (LinksReturned /\ Loaded) =>
        /\ Len(OfType(issues, "undefined_reference"))
               = Len(Flatten([n \in 1..Len(lines) |-> UndefinedUsages(n)]))
        /\ \A n \in 1..Len(lines) :
               LET bad == UndefinedUsages(n)
                   rep == OfType(OfLine(issues, n), "undefined_reference")
               IN  /\ Len(rep) = Len(bad)
                   /\ \A k \in 1..Len(rep) :
                          /\ rep[k].original_text = bad[k].whole
                          /\ rep[k].severity = "error"
\* a usage resolved by a later definition written in the other case, next to
\* a usage that nothing defines
C8_Witness ==
    /\ LinksReturned /\ Loaded
    /\ Len(OfType(issues, "undefined_reference")) = 1
    /\ \E n \in 1..Len(lines) : \E j \in (n + 1)..Len(lines) :
           /\ RefDefMatch(lines[j]) # <<>>
           /\ \E k \in 1..Len(RefLinkMatches(lines[n], 1)) :
                  LET m == RefLinkMatches(lines[n], 1)[k]
                  IN  /\ m.ref # RefDefMatch(lines[j])[1].ref
                      /\ Lower(m.ref) = Lower(RefDefMatch(lines[j])[1].ref)
                      /\ OfType(OfLine(issues, n), "undefined_reference") = <<>>

\* the last line that defines the identifier id
LastDefinition(id) ==
    Max({j \in 1..Len(lines) :
            RefDefMatch(lines[j]) # <<>> /\ Lower(RefDefMatch(lines[j])[1].ref) = id})

\* C23: when several lines define the same identifier, compared without
\* regard to case, the table of reference definitions holds after the first
\* pass the line number and the target of the last of them; the second pass
\* does not modify the table.
C23_LastDefinitionWins ==
    /\ [](Loaded /\ pc = "links" =>
             /\ DOMAIN reference_definitions = DefinedIds
             /\ \A id \in DefinedIds :
                    reference_definitions[id]
                        = <<LastDefinition(id),
                            RefDefMatch(lines[LastDefinition(id)])[1].target>>)
    /\ [][pc = "links" => reference_definitions' = reference_definitions]_vars
\* two definitions of r in different cases, then a usage: the second pass is over
C23_Witness ==
    /\ Loaded /\ pc = "links" /\ i = 4
    /\ lines = <<"[R]: u", "[r]: v", "[a][r]">>
    /\ reference_definitions["r"] = <<2, "v">>
    /\ issues = <<>>

----------------------------------------------------------------------------
(* Tables.                                                                 *)

\* the column count as the number of segments between pipes, empty leading
\* and trailing segments included
Segments(line) == Len(Split(Strip(line), "|"))

\* C9: after a first row of 3 columns, a row of 2 columns that is not a
\* separator row yields exactly one table_column_mismatch error at its line,
\* and a separator row yields none, whatever its column count.
C9_ColumnMismatch ==
    [][(pc = "tables" /\ i <= Len(lines) /\ in_table /\ IsTableLine(lines[i]))
          => /\ (/\ Segments(lines[table_start]) = 3
                 /\ Segments(lines[i]) = 2
                 /\ ~IsSeparatorRow(lines[i]))
                    => /\ Len(issues') = Len(issues) + 1
                       /\ issues'[Len(issues')].issue_type = "table_column_mismatch"
                       /\ issues'[Len(issues')].severity = "error"
                       /\ issues'[Len(issues')].line_number = i
             /\ IsSeparatorRow(lines[i]) => issues' = issues]_vars

\* C27: the column count of a table line is the number of segments of the
\* trimmed line between pipes, empty leading and trailing segments included:
\* the first row of a region sets the header count to it, and a later row
\* with as many pipes as the first row yields no table_column_mismatch.
C27_ColumnCount ==
    [][(Loaded /\ pc = "tables" /\ i <= Len(lines) /\ IsTableLine(lines[i])) =>
          /\ ~in_table => header_cols' = Segments(lines[i])
          /\ (in_table /\ Count(lines[i], "|") = Count(lines[table_start], "|"))
                 => issues' = issues]_vars

\* the table region as the document gives it: the table lines before line n
\* that follow the last non-empty line without a pipe
EndsRegion(line) == Find(line, "|", 1) = 0 /\ Strip(line) # ""
RegionBefore(n) ==
    LET last == Max({0} \cup {k \in 1..(n - 1) : EndsRegion(lines[k])})
    IN  {j \in (last + 1)..(n - 1) : IsTableLine(lines[j])}

\* C28: the first table line after a context that is no table sets the
\* header count and is not reported; every later table line of the region
\* is compared with the count of that first line, which no later row
\* changes; a blank line and a line with a pipe that neither starts nor
\* ends with one leave the region open, a non-empty line without a pipe
\* ends it.
C28_TableRegion ==
    /\ [](Loaded /\ pc = "tables" /\ i <= Len(lines) + 1 =>
             /\ in_table = (RegionBefore(i) # {})
             /\ in_table => /\ table_start = Min(RegionBefore(i))
                            /\ header_cols = Cols(lines[table_start]))
    /\ [][(Loaded /\ pc = "tables" /\ i <= Len(lines)) =>
            IF IsTableLine(lines[i])
            THEN /\ in_table'
                 /\ ~in_table => issues' = issues
                 /\ in_table =>
                        /\ <<table_start', header_cols'>> = <<table_start, header_cols>>
                        /\ Len(Appended) =
                               (IF /\ Cols(lines[i]) # Cols(lines[Min(RegionBefore(i))])
                                   /\ ~IsSeparatorRow(lines[i])
                                THEN 1 ELSE 0)
            ELSE /\ issues' = issues
                 /\ in_table' = (in_table /\ ~EndsRegion(lines[i]))]_vars
\* a first row, a line with a pipe inside, a blank line, a shorter row
C28_Witness ==
    /\ Loaded /\ pc = "tables" /\ i = 4
    /\ lines = <<"|a|b", "a|b", "|a">>
    /\ in_table /\ table_start = 1 /\ header_cols = 3
    /\ Len(issues) = 1
    /\ issues[1].issue_type = "table_column_mismatch" /\ issues[1].line_number = 3

----------------------------------------------------------------------------
(* External links.                                                         *)

\* an inline link whose URL is external and has a scheme and a host
HasSchemeAndHost(m) ==
    LET url == Strip(m.url)
    IN  IsExternal(url) /\ ~UrlParseRaises(url) /\ UrlScheme(url) # "" /\ UrlNetloc(url) # ""

\* what the answer of the probe to the URL of a link lets one expect: the
\* type and severity of the one issue, or nothing
ExpectedOfProbe(m) ==
    LET r == probe[Strip(m.url)]
    IN  IF r.kind = "response" /\ r.status >= 400 THEN <<<<"broken_external_link", "error">>>>
        ELSE IF r.kind = "timeout" THEN <<<<"link_timeout", "warning">>>>
        ELSE <<>>
ExpectedOfLine(line) ==
    LET ms == LinkMatches(line, 1)
    IN  Flatten([k \in 1..Len(ms) |->
                    IF HasSchemeAndHost(ms[k]) THEN ExpectedOfProbe(ms[k]) ELSE <<>>])
TypeAndSeverity(iss) == [k \in 1..Len(iss) |-> <<iss[k].issue_type, iss[k].severity>>]

\* C11: for an external URL with a scheme and a host the answer of the probe
\* determines the issue: a status of 400 or more yields one
\* broken_external_link error, a timeout one link_timeout warning, a lower
\* status or any other failure nothing; the next links of the line and the
\* next lines are scanned all the same, and the run returns these issues.
C11_ProbeOutcome ==
    /\ (Loaded /\ LinksReturned) =>
           \A n \in 1..Len(lines) :
               TypeAndSeverity(OfLine(issues, n)) = ExpectedOfLine(lines[n])
    /\ (Loaded /\ Done) =>
           \A n \in 1..Len(lines) :
               TypeAndSeverity(OfLine(result.issues, n)) = ExpectedOfLine(lines[n])
C11_Witness ==
    /\ Loaded /\ Done /\ Len(lines) = 3
    /\ lines[1] = "[f](https://g/p) [e](http://h)"
    /\ probe["https://g/p"].status = 400 /\ probe["http://h"].kind = "timeout"
    /\ lines[3] = "[e](http://h)"
    /\ TypeAndSeverity(result.issues) =
           <<<<"broken_external_link", "error">>, <<"link_timeout", "warning">>,
             <<"link_timeout", "warning">>>>

----------------------------------------------------------------------------
(* Termination.                                                            *)

\* the positions of a run in the order of validate_markdown_file and
\* validate_all; the two passes of validate_links are two positions
RunOrder ==
    <<"load", "headers", "links_definitions", "links", "code_blocks", "lists", "images",
      "emphasis", "tables", "sort", "return", "done">>
Position(p) == CHOOSE k \in 1..Len(RunOrder) : RunOrder[k] = p
LinePositions ==
    {"headers", "links_definitions", "links", "code_blocks", "lists", "images", "emphasis",
     "tables"}

\* C12: a run on a document that loads returns a result, whatever the probe
\* answers.  No run goes on for ever, because every step moves on: a checker
\* goes from one line to the next, whatever issues it found (it only appends
\* to the issues), and after the last line the run goes to the position that
\* follows in the order of validate_all, so that each of the seven checkers
\* runs once, then the sort, then the return.  No run stops early, because at
\* every position before the return of the result a step is possible.
C12_Terminates ==
    /\ [][(Loaded /\ pc \in LinePositions /\ pc' = pc)
             => /\ i <= Len(lines) /\ i' = i + 1
                /\ Len(issues') >= Len(issues)
                /\ SubSeq(issues', 1, Len(issues)) = issues]_vars
    /\ [][(Loaded /\ pc \in LinePositions /\ pc' # pc)
             => /\ i = Len(lines) + 1 /\ i' = 1
                /\ Position(pc') = Position(pc) + 1]_vars
    /\ [][(Loaded /\ pc \in {"load", "sort", "return"})
             => /\ Position(pc') = Position(pc) + 1
                /\ pc = "sort" => issues' = SortByLine(issues)
                /\ pc = "return" => result' = Result(issues)]_vars
    /\ [](Loaded => /\ pc \in {"idle"} \cup {RunOrder[k] : k \in 1..Len(RunOrder)}
                     /\ pc \in LinePositions => i \in 1..(Len(lines) + 1))
C12_Witness ==
    /\ Loaded /\ Done /\ run = 1 /\ Len(lines) = 3
    /\ Len(OfLine(result.issues, 1)) = 2
    /\ Len(OfLine(result.issues, 3)) = 1

----------------------------------------------------------------------------
(* Requests in flight at the same time.                                    *)

\* the two calls, the running one and the other
Calls == {Suspended, parked}

\* C13: calls of validate_markdown_file share no document, no list of issues
\* and no table of reference definitions: however the steps of two calls,
\* each on its own temporary file, are interleaved, a call works on the lines
\* of its own file and returns what a call on that file returns when nothing
\* else runs between its start and its return.
C13_Isolated ==
    \A r \in Calls :
        /\ (r.file = "ok" /\ r.pc \in LinePositions \cup {"sort", "return", "done"})
               => r.lines = Split(r.content, "\n")
        /\ (r.pc = "done" /\ r.run = 2) => r.result = r.first_result
C13_Witness ==
    /\ Done /\ run = 2 /\ Loaded /\ Len(lines) = 3
    /\ result.total_issues = 3 /\ OfType(result.issues, "undefined_reference") # <<>>
    /\ parked.pc = "links" /\ parked.run = 2 /\ parked.i = 2
    /\ "r" \in DOMAIN parked.reference_definitions
    /\ parked.first_result.total_issues = 1

----------------------------------------------------------------------------
(* End-to-end scenarios.                                                   *)

\* C14: the document of the three lines "# Title", "", "Some **bold text."
\* and a final newline yields exactly one issue, an unmatched_bold warning at
\* line 3; no checker reports anything else at any point of the run.
C14_UnmatchedBold ==
    (Loaded /\ content = UnmatchedBoldDocument) =>
        /\ \A k \in 1..Len(issues) :
               /\ issues[k].issue_type = "unmatched_bold"
               /\ issues[k].severity = "warning"
               /\ issues[k].line_number = 3
        /\ pc \in {"load", "headers", "links_definitions", "links", "code_blocks", "lists",
                   "images"} => issues = <<>>
        /\ pc = "emphasis" => Len(issues) = (IF i > 3 THEN 1 ELSE 0)
        /\ pc \in {"tables", "sort", "return", "done"} => Len(issues) = 1
        /\ Done => /\ result.issues = issues
                   /\ result.total_issues = 1 /\ result.warnings = 1
                   /\ result.errors = 0 /\ result.info = 0
C14_Witness ==
    /\ Loaded /\ content = UnmatchedBoldDocument /\ Done
    /\ lines = <<"# Title", "", "Some **bold text.", "">>
    /\ Len(result.issues) = 1
    /\ result.issues[1].issue_type = "unmatched_bold"
    /\ result.issues[1].original_text = "Some **bold text."

\* C15: the document of the one line "## " and a final newline yields
\* exactly one issue, an empty_header warning at line 1: the space after the
\* hashes is there, so no header_format, and the empty text ends with no
\* hash, so no trailing_hashes.
C15_EmptyHeader ==
    (Loaded /\ content = EmptyHeaderDocument) =>
        /\ \A k \in 1..Len(issues) :
               /\ issues[k].issue_type = "empty_header"
               /\ issues[k].severity = "warning"
               /\ issues[k].line_number = 1
        /\ Len(issues) = (IF pc \in {"idle", "load"} \/ (pc = "headers" /\ i = 1) THEN 0 ELSE 1)
        /\ Done => /\ result.issues = issues
                   /\ result.total_issues = 1 /\ result.warnings = 1
                   /\ result.errors = 0 /\ result.info = 0
C15_Witness ==
    /\ Loaded /\ content = EmptyHeaderDocument /\ Done
    /\ lines = <<"## ", "">>
    /\ Len(result.issues) = 1
    /\ result.issues[1].issue_type = "empty_header"
    /\ result.issues[1].original_text = "## "

\* C16: the document of the one line "[broken](http://)" and a final newline
\* yields exactly one issue, an invalid_url_format error at line 1, whatever
\* the probe would answer for the URL: a URL without a host is not probed.
C16_NoHost ==
    (Loaded /\ content = NoHostDocument) =>
        /\ \A k \in 1..Len(issues) :
               /\ issues[k].issue_type = "invalid_url_format"
               /\ issues[k].severity = "error"
               /\ issues[k].line_number = 1
        /\ Len(issues) = (IF pc \in {"idle", "load", "headers", "links_definitions"}
                             \/ (pc = "links" /\ i = 1)
                          THEN 0 ELSE 1)
        /\ Done => /\ result.issues = issues
                   /\ result.total_issues = 1 /\ result.errors = 1
                   /\ result.warnings = 0 /\ result.info = 0
C16_Witness ==
    /\ Loaded /\ content = NoHostDocument /\ Done
    /\ probe["http://"] = [kind |-> "response", status |-> 404]
    /\ Len(result.issues) = 1
    /\ result.issues[1].issue_type = "invalid_url_format"
    /\ result.issues[1].original_text = "[broken](http://)"

\* C17: the empty file yields no issue at any point of the run, and the
\* result counts 0 issues, 0 errors, 0 warnings and 0 info messages.
C17_EmptyDocument ==
    (Loaded /\ content = EmptyDocument) =>
        /\ issues = <<>>
        /\ Done => /\ result.issues = <<>>
                   /\ result.total_issues = 0 /\ result.errors = 0
                   /\ result.warnings = 0 /\ result.info = 0
C17_Witness ==
    /\ Loaded /\ content = EmptyDocument /\ Done /\ run = 1
    /\ lines = <<"">>
    /\ result.total_issues = 0 /\ result.issues = <<>>

----------------------------------------------------------------------------
(* Headings.                                                               *)

\* the header checker is about to process line i
AtHeaderLine == Loaded /\ pc = "headers" /\ i <= Len(lines)

\* C21: a line that begins with a run of 7 or more hashes is no heading: the
\* header checker reports nothing for it and leaves the previous level as
\* it is.
C21_DeepRunIsNoHeading ==
    [][(AtHeaderLine /\ RunLength(lines[i], "#", 1) >= 7)
          => (issues' = issues /\ prev_level' = prev_level)]_vars

\* the level of a line the header pattern matches, and the nearest line
\* before line n that it matches (0 when there is none)
LevelOf(line) == Min({RunLength(line, "#", 1), 6})
HeadingBefore(n) ==
    LET H == {j \in 1..(n - 1) : At(lines[j], 1) = "#"}
    IN  IF H = {} THEN 0 ELSE Max(H)

----------------------------------------------------------------------------
(* The classes of URLs.                                                    *)

\* the class of a URL, and the URL without its fragment
IsAnchor(url) == At(url, 1) = "#"
HasExternalPrefix(url) ==
    \E p \in {"http://", "https://", "mailto:", "tel:"} :
        Len(url) >= Len(p) /\ SubSeq(url, 1, Len(p)) = p
IsLocal(url) == ~IsAnchor(url) /\ ~HasExternalPrefix(url)
WithoutFragment(url) ==
    IF Find(url, "#", 1) = 0 THEN url ELSE SubSeq(url, 1, Find(url, "#", 1) - 1)
\* the URLs of the inline links of a line, in order
UrlsOf(line) ==
    LET ms == LinkMatches(line, 1) IN [k \in 1..Len(ms) |-> Strip(ms[k].url)]
\* the local URLs of a line whose file does not exist
MissingLocal(line) ==
    SelectSeq(UrlsOf(line),
              LAMBDA u : IsLocal(u) /\ (base_dir \o "/" \o WithoutFragment(u)) \notin exists)
ExternalIssueTypes == {"invalid_url_format", "broken_external_link", "link_timeout"}

\* C24: every non-empty URL is in one of three classes and yields at most
\* one issue.  An anchor yields none.  A URL without one of the prefixes
\* http://, https://, mailto:, tel: yields broken_local_link exactly when
\* its path without the fragment, under the base directory, does not exist,
\* and never an issue of an external link; any other URL never yields
\* broken_local_link.
C24_UrlClasses ==
    (Loaded /\ LinksReturned) =>
        \A n \in 1..Len(lines) :
            LET here == OfLine(issues, n)
                broken == OfType(here, "broken_local_link")
                external == SelectSeq(here, LAMBDA x : x.issue_type \in ExternalIssueTypes)
                urls == UrlsOf(lines[n])
            IN  /\ Len(here) = Len(broken) + Len(external)
                /\ Len(broken) = Len(MissingLocal(lines[n]))
                /\ \A k \in 1..Len(broken) :
                       broken[k].description
                           = "Local file not found: " \o MissingLocal(lines[n])[k]
                /\ Len(external) <= Len(SelectSeq(urls, HasExternalPrefix))
                /\ (\A k \in 1..Len(urls) : IsAnchor(urls[k])) => here = <<>>
\* the file named by the URL with its fragment exists, the file itself does
\* not; the probe of the external URL times out
C24_Witness ==
    /\ Loaded /\ LinksReturned
    /\ lines = <<"[b](x.md#s)", "[c](y.md) [d](http://h)", "[a](#top)">>
    /\ exists = {"/docs/x.md#s"}
    /\ probe["http://h"].kind = "timeout"
    /\ [k \in 1..Len(issues) |-> <<issues[k].line_number, issues[k].issue_type>>]
           = <<<<1, "broken_local_link">>, <<2, "broken_local_link">>, <<2, "link_timeout">>>>

----------------------------------------------------------------------------
(* Lists.                                                                  *)

IsListItem(line) == ListItemMatch(line) # <<>>
IsBlank(line) == Strip(line) = ""
\* the continuity flag as the document gives it: the nearest line before
\* line n that is not blank is a list item
ContinuesList(n) ==
    LET N == {j \in 1..(n - 1) : ~IsBlank(lines[j])}
    IN  N # {} /\ IsListItem(lines[Max(N)])

\* C25: inconsistent_indent is reported for a list item exactly when its
\* indentation is odd and the continuity flag is set.  Every list item sets
\* the flag, every non-empty line that is no list item clears it, a blank
\* line leaves it: an odd-indented item after an item and blank lines is
\* reported, the first item after a non-empty line that is no item is not.
C25_InconsistentIndent ==
    [][(Loaded /\ pc = "lists" /\ i <= Len(lines)) =>
          LET reported == OfType(Appended, "inconsistent_indent")
          IN  /\ prev_was_list = ContinuesList(i)
              /\ prev_was_list' = ContinuesList(i + 1)
              /\ Len(reported) =
                     (IF /\ IsListItem(lines[i])
                         /\ ListItemMatch(lines[i])[1].indent % 2 = 1
                         /\ ContinuesList(i)
                      THEN 1 ELSE 0)
              /\ \A k \in 1..Len(reported) :
                     reported[k].line_number = i /\ reported[k].severity = "info"]_vars
\* an item, a blank line, an item indented by three
C25_Witness ==
    /\ Loaded /\ pc = "lists" /\ i = 4
    /\ lines = <<"- a", " ", "   1. c">>
    /\ prev_was_list
    /\ Len(issues) = 1
    /\ issues[1].issue_type = "inconsistent_indent" /\ issues[1].line_number = 3

----------------------------------------------------------------------------
(* Emphasis.                                                               *)

StartsWithFenceMarker(line) ==
    LET t == Strip(line)
    IN  Len(t) >= 3 /\ SubSeq(t, 1, 3) \in {BT \o BT \o BT, "~~~"}
OddMarkers(line, marker) == Count(RemoveCodeSpans(line, 1), marker) % 2 = 1

\* C26: for a line that does not start, once trimmed, with three backticks
\* or three tildes, the emphasis checker reports one unmatched_bold warning
\* when the markers ** of the line without its code spans are odd in number,
\* and one more when the markers __ are; a line that starts with a fence
\* marker yields none.
C26_UnmatchedBold ==
    [][(Loaded /\ pc = "emphasis" /\ i <= Len(lines)) =>
          /\ Len(Appended) =
                 (IF StartsWithFenceMarker(lines[i]) THEN 0
                  ELSE (IF OddMarkers(lines[i], "**") THEN 1 ELSE 0)
                           + (IF OddMarkers(lines[i], "__") THEN 1 ELSE 0))
          /\ \A k \in 1..Len(Appended) :
                 /\ Appended[k].issue_type = "unmatched_bold"
                 /\ Appended[k].severity = "warning"
                 /\ Appended[k].line_number = i]_vars
\* two issues for one line, none for a marker inside a code span, none for a
\* line that starts with a fence marker
C26_Witness ==
    /\ Loaded /\ pc = "emphasis" /\ i = 4
    /\ lines = <<"__a **b", "^**^ b", "^^^ **">>
    /\ Len(OfType(issues, "unmatched_bold")) = 2
    /\ \A k \in 1..Len(issues) :
           issues[k].issue_type = "unmatched_bold" => issues[k].line_number = 1

----------------------------------------------------------------------------
(* The line sequence and the issue sink during a run.                      *)

CheckerSteps == {"headers", "links_definitions", "links", "code_blocks", "lists",
                 "images", "emphasis", "tables"}
IsPrefix(s, t) == Len(s) <= Len(t) /\ SubSeq(t, 1, Len(s)) = s
Occurrences(s, x) == Cardinality({k \in 1..Len(s) : s[k] = x})
IsPermutation(s, t) ==
    /\ Len(s) = Len(t)
    /\ \A k \in 1..Len(s) : Occurrences(s, s[k]) = Occurrences(t, s[k])

\* C29: during a run no checker changes the loaded lines, and until the
\* sort the issue sink only grows: a step of a checker leaves the issues
\* appended before in place and in order; the sort yields a permutation of
\* the sink and changes no line either.
C29_AppendOnly ==
    [][/\ pc \in CheckerSteps => lines' = lines /\ IsPrefix(issues, issues')
       /\ pc = "sort" => lines' = lines /\ IsPermutation(issues, issues')
       /\ pc = "return" => lines' = lines /\ issues' = issues]_vars
\* a run in which five checkers appended to the sink, out of line order
C29_Witness ==
    /\ Loaded /\ pc = "return"
    /\ Cardinality({CheckerRank(issues[k].issue_type) : k \in 1..Len(issues)}) >= 5
    /\ issues # unsorted
    /\ IsPermutation(unsorted, issues)


\* C30: in every result an issue has line number 0 only if it is the
\* file_error issue of load_file; every issue of a checker has a line number
\* between 1 and the number of lines of the document, and its original text
\* is text of the line of that number.
C30_LineNumbers ==
    Done =>
        \A k \in 1..Len(result.issues) :
            LET x == result.issues[k]
            IN  IF x.issue_type = "file_error"
                THEN ~Loaded /\ x.line_number = 0 /\ Len(result.issues) = 1
                ELSE /\ Loaded
                     /\ x.line_number \in 1..Len(lines)
                     /\ Contains(lines[x.line_number], x.original_text)
\* an unclosed block reported at its opening line, the first, and a heading
\* reported at the last line
C30_Witness ==
    /\ Done /\ Loaded
    /\ lines = <<"^^^", " - ", "###x #">>
    /\ \E k \in 1..Len(result.issues) :
           /\ result.issues[k].issue_type = "unclosed_code_block"
           /\ result.issues[k].line_number = 1
    /\ \E k \in 1..Len(result.issues) : result.issues[k].line_number = Len(lines)

----------------------------------------------------------------------------
(* The temporary file of a request.                                        *)

Answered == handler = "answered"

\* C31: once a request to /api/validate or /api/validate-file is answered,
\* the temporary file, if it was created, exists no more, whether the
\* validation returned or raised; a request with empty content is answered
\* with status 400, no file created and no validation run.
C31_TempFileRemoved ==
    Answered =>
        /\ temp_created => file = "missing"
        /\ body = Text("") => status = 400 /\ ~temp_created /\ run = 0

----------------------------------------------------------------------------
(* One instance, validate_all called twice.                                *)

\* C32: the issue sink of an instance is never cleared.  A second call of
\* validate_all on the same instance, the document unchanged, starts from
\* the issues the first call returned and returns each of them twice: 2k
\* issues for a document with k issues, sorted by line number.
C32_NeverCleared ==
    /\ (reused /\ pc \notin {"return", "done"}) => IsPrefix(first_result.issues, issues)
    /\ (reused /\ Done) =>
           LET first == first_result.issues
               second == result.issues
           IN  /\ Len(second) = 2 * Len(first)
               /\ \A k \in 1..Len(first) :
                      Occurrences(second, first[k]) = 2 * Occurrences(first, first[k])
               /\ \A k \in 1..(Len(second) - 1) :
                      second[k].line_number <= second[k + 1].line_number
\* three issues or more the first time, each returned twice the second time
\* and brought into line order by the sort
C32_Witness ==
    /\ reused /\ Done /\ Loaded
    /\ Len(first_result.issues) >= 3
    /\ Len(result.issues) = 2 * Len(first_result.issues)
    /\ result.issues # first_result.issues \o first_result.issues

----------------------------------------------------------------------------
(* Images and the link checker.                                            *)

ImagesOf(line) == ImageMatches(line, 1)
FirstChar(m) == m.last - Len(m.whole) + 1
\* a match of the link pattern that starts before the image runs into it
InsideLinkText(line, m) ==
    LET ls == LinkMatches(line, 1)
    IN  \E k \in 1..Len(ls) :
            FirstChar(ls[k]) < FirstChar(m) /\ ls[k].last > FirstChar(m)
\* the image checker takes the URL for a path
IsLocalImage(url) ==
    url # "" /\ ~(StartsWith(url, "http://") \/ StartsWith(url, "https://")
                     \/ StartsWith(url, "data:"))
\* an issue of the link checker for [alt](url) and, after it, one of the
\* image checker for ![alt](url), both at line n of the result
BothReported(n, m, link_type, image_type) ==
    \E j, k \in 1..Len(result.issues) :
        /\ j < k
        /\ result.issues[j].line_number = n
        /\ result.issues[j].issue_type = link_type
        /\ result.issues[j].original_text = Tail(m.whole)
        /\ result.issues[k].line_number = n
        /\ result.issues[k].issue_type = image_type
        /\ result.issues[k].original_text = m.whole
ImageRule(n, m, local) ==
    /\ m.text = "" => BothReported(n, m, "empty_link_text", "missing_alt_text")
    /\ Strip(m.url) = "" => BothReported(n, m, "empty_url", "empty_image_url")
    /\ (local /\ ~PathExists(PathJoin(base_dir, Strip(m.url))))
           => BothReported(n, m, "broken_local_link", "missing_image")

\* C33: every image ![alt](url) is processed by the link checker too, as
\* the inline link [alt](url): an empty alt text yields empty_link_text and
\* missing_alt_text, an empty URL yields empty_url and empty_image_url, a
\* local image that does not exist yields broken_local_link and
\* missing_image, the issue of the link checker first on the line.
C33_ImagesAreLinks ==
    (Done /\ Loaded) =>
        \A n \in 1..Len(lines) : \A k \in 1..Len(ImagesOf(lines[n])) :
            LET m == ImagesOf(lines[n])[k]
            IN  ImageRule(n, m, IsLocalImage(Strip(m.url)))

\* C33 as amended: the same for every image that no match of the link
\* pattern starting before it runs into, a local image being one whose URL
\* has no "#" and is no mailto: or tel: URL.
C33_ImagesOutsideLinkText ==
    (Done /\ Loaded) =>
        \A n \in 1..Len(lines) : \A k \in 1..Len(ImagesOf(lines[n])) :
            LET m == ImagesOf(lines[n])[k]
                url == Strip(m.url)
            IN  ~InsideLinkText(lines[n], m) =>
                    ImageRule(n, m, /\ IsLocalImage(url)
                                    /\ Find(url, "#", 1) = 0
                                    /\ ~StartsWith(url, "mailto:")
                                    /\ ~StartsWith(url, "tel:"))
\* an image without alt text whose file is missing, alone in the document:
\* two issues of the link checker, then two of the image checker
C33_Witness ==
    /\ Done /\ Loaded
    /\ lines = <<"![](i.png)">>
    /\ exists = {}
    /\ Len(result.issues) = 4
    /\ result.issues[1].issue_type = "empty_link_text"
    /\ result.issues[2].issue_type = "broken_local_link"
    /\ result.issues[3].issue_type = "missing_alt_text"
    /\ result.issues[4].issue_type = "missing_image"

----------------------------------------------------------------------------
(* mailto: and tel: URLs.                                                  *)

HasMailPrefix(url) == StartsWith(url, "mailto:") \/ StartsWith(url, "tel:")
\* "//" follows the scheme: what comes next is the host component
HasDoubleSlash(url) == StartsWith(url, "mailto://") \/ StartsWith(url, "tel://")
HasHost(url) ==
    LET from == Find(url, "/", 1) + 2
    IN  HasDoubleSlash(url) /\ from <= Len(url) /\ At(url, from) \notin {"/", "?", "#"}
\* type and severity of the issues reported for the inline link m of line n
ReportedFor(n, m) ==
    LET of_link == SelectSeq(issues, LAMBDA x : x.line_number = n /\ x.original_text = m.whole)
    IN  [k \in 1..Len(of_link) |-> <<of_link[k].issue_type, of_link[k].severity>>]

\* C34: every inline link whose URL starts with mailto: or tel: yields
\* exactly one invalid_url_format error, whatever the probe would answer
\* for the URL.
C34_MailtoIsInvalid ==
    (Loaded /\ LinksReturned) =>
        \A n \in 1..Len(lines) : \A k \in 1..Len(LinkMatches(lines[n], 1)) :
            LET m == LinkMatches(lines[n], 1)[k]
            IN  HasMailPrefix(Strip(m.url)) =>
                    ReportedFor(n, m) = <<<<"invalid_url_format", "error">>>>

\* C34 as amended: a mailto: or tel: URL is never looked up as a local
\* path; without "//" after the scheme it yields exactly one
\* invalid_url_format error whatever the probe would answer; with a host
\* after "//" it is probed and yields what the answer of the probe gives.
C34_HostlessMailtoIsInvalid ==
    (Loaded /\ LinksReturned) =>
        \A n \in 1..Len(lines) : \A k \in 1..Len(LinkMatches(lines[n], 1)) :
            LET m == LinkMatches(lines[n], 1)[k]
                url == Strip(m.url)
            IN  HasMailPrefix(url) =>
                    ReportedFor(n, m) =
                        (IF ~HasDoubleSlash(url) THEN <<<<"invalid_url_format", "error">>>>
                         ELSE IF HasHost(url) THEN ExpectedOfProbe(m)
                         ELSE ReportedFor(n, m))
\* a mail address whose probe would time out, and a telephone number
C34_Witness ==
    /\ Loaded /\ LinksReturned
    /\ lines = <<"[m](mailto:a@b)", "[t](tel:+1)">>
    /\ probe["mailto:a@b"].kind = "timeout"
    /\ Len(issues) = 2
    /\ \A k \in 1..2 : issues[k].issue_type = "invalid_url_format" /\ issues[k].line_number = k

----------------------------------------------------------------------------
(* The fence state and the other checkers.                                 *)

\* the issues of the header, link, list, image, emphasis and table checkers
OfOtherCheckers(iss) == SelectSeq(iss, LAMBDA x : CheckerRank(x.issue_type) \notin {0, 3})

\* C35: only the code block checker depends on the fence state.  The
\* header, link, list, image, emphasis and table checkers report the same
\* issues for the lines of a document whether they lie inside a fenced code
\* block or, the fence lines replaced by plain text, outside one.
C35_FenceBlind ==
    (Done /\ run = 2) => OfOtherCheckers(result.issues) = OfOtherCheckers(first_result.issues)
\* a heading without space and an odd ** inside a block that is never
\* closed, reported the same once the fence is gone; only the issue of the
\* code block checker has gone with it
C35_Witness ==
    /\ Done /\ run = 2
    /\ lines = <<"x", "###x #", "|**b [t][r]">>
    /\ \E k \in 1..Len(first_result.issues) :
           /\ first_result.issues[k].issue_type = "unclosed_code_block"
           /\ first_result.issues[k].line_number = 1
    /\ \A k \in 1..Len(result.issues) : CheckerRank(result.issues[k].issue_type) # 3
    /\ \E k \in 1..Len(result.issues) :
           /\ result.issues[k].issue_type = "header_format"
           /\ result.issues[k].line_number = 2
    /\ \E k \in 1..Len(result.issues) :
           /\ result.issues[k].issue_type = "unmatched_bold"
           /\ result.issues[k].line_number = 3

----------------------------------------------------------------------------
(* Fence lines with a language tag.                                        *)

\* word characters follow the run of fence characters
HasTag(line) == FenceMatch(line) /\ Len(Strip(line)) > FenceRun(line)
WithoutTag(line) == SubSeq(Strip(line), 1, FenceRun(line))

\* C36: the language tag of a fence line plays no role in the fence
\* transitions.  A fence line with a tag leaves the fence state as the same
\* line without the tag would: inside an open block, with the character of
\* the opening fence and a count that suffices, it closes the block and is
\* neither content nor the opening of a new block.
C36_TagPlaysNoRole ==
    [][(Loaded /\ pc = "code_blocks" /\ i <= Len(lines) /\ HasTag(lines[i])) =>
          LET bare == FenceStep(i, WithoutTag(lines[i]))
          IN  /\ in_fenced_block' = bare.in_fenced_block
              /\ block_start_line' = bare.block_start_line
              /\ fence_char' = bare.fence_char
              /\ fence_count' = bare.fence_count
              /\ (/\ in_fenced_block
                  /\ current_char(lines[i]) = fence_char
                  /\ FenceRun(lines[i]) >= fence_count)
                     => ~in_fenced_block' /\ block_start_line' = block_start_line]_vars
\* a block opened by three backticks and closed by three backticks with a
\* tag: no block is open at the end and nothing is reported
C36_Witness ==
    /\ Loaded /\ CodeBlocksReturned
    /\ lines = <<"^^^", "^^^py">>
    /\ ~in_fenced_block /\ block_start_line = 1
    /\ issues = <<>>

=============================================================================
